---- MODULE Spec2Model ----
(***************************************************************************)
(* Model of the DGII e-CF gateway (ithesk/firmadgii): the credential       *)
(* cache of CertificateService, the submission and reception operations    *)
(* of DGIIService and the HTTP handlers that call them.                     *)
(*                                                                         *)
(* One request is handled at a time, step by step (every await of the      *)
(* source is a step boundary); the downstream notification started by the  *)
(* reception pipeline is a detached task that completes on its own.        *)
(***************************************************************************)
EXTENDS Integers, Sequences, FiniteSets, TLC

VARIABLES
    config,        \* configuration read at start-up (config/environment.ts)
    files,         \* credential material on disk: file name -> state
    certificates,  \* CertificateService.certificates, the credential cache
    nreq,          \* number of requests received so far
    req,           \* the request being handled (the last one when pc = 0)
    pc,            \* position in the handler's step list, 0 when no request runs
    local,         \* the local variables of the running handler
    calls,         \* outward calls made by the request, in order
    result,        \* the response sent to the caller of the request
    outcome,       \* per request number: "running", "ok" or "failed"
    notify,        \* per request number: the detached downstream notification
    loads,         \* per cache key: credentials loaded and parsed so far
    evictions,     \* per cache key: times clearCache removed its entry
    last,          \* the last direct call of CertificateService and its outcome
    qr             \* the last generateQR request and its answer

vars == <<config, files, certificates, nreq, req, pc, local, calls, result,
          outcome, notify, loads, evictions, last, qr>>

----------------------------------------------------------------------------
(* Bounds *)

\* number of requests handled in one behaviour
MaxRequests == 2

\* number of times one cache key is evicted in one behaviour
MaxEvictions == 2

\* number of characters of a document number passed to generateQR
MaxEncfLen == 4

----------------------------------------------------------------------------
(* Values *)

None == [kind |-> "none"]

\* the tax id a caller may pass; "" stands for an omitted (undefined) rnc
TaxId == "130939616"
RncReceptor == "132493788"
RncValues == {"", TaxId}

\* README: consumption invoices (type 32) below RD$250,000 go as a summary
SmallAmountThreshold == 250000
TipoConsumo == 32

DefaultCertificate == "certificado.p12"
FileNames == {DefaultCertificate, TaxId \o ".p12"}

\* the keys of the credential cache
CacheKeys == {"default", TaxId}

\* JSON document bodies: one record shape for every document kind
\*   root        name of the root element
\*   Encabezado  whether the header object is present
\*   ids         whether the identifying fields (eNCF, RNC...) are present
\*   Estado, Motivo / Codigo   state and reason of an approval or acknowledgment
\*   CodigoSeguridadeCF        security code field of a summary
\*   ns          whether the root carries xmlns:xsi / xmlns:xsd
Blank == [root |-> "", Encabezado |-> FALSE, ids |-> FALSE, TipoeCF |-> 0,
          MontoTotal |-> 0, Estado |-> "", Motivo |-> "", Codigo |-> "",
          CodigoSeguridadeCF |-> None, ns |-> FALSE, attrs |-> FALSE]

InvoicePayloads ==
    {[Blank EXCEPT !.root = "ECF"]} \cup
    {[Blank EXCEPT !.root = "ECF", !.Encabezado = TRUE, !.ids = TRUE,
                   !.TipoeCF = t, !.MontoTotal = m] :
        t \in {31, TipoConsumo}, m \in {11800, 300000}}

SummaryPayloads ==
    {[Blank EXCEPT !.root = "RFCE", !.Encabezado = TRUE, !.ids = TRUE,
                   !.TipoeCF = TipoConsumo, !.MontoTotal = 11800,
                   !.CodigoSeguridadeCF = [kind |-> "literal", text |-> "ABC123"]]}

\* `attrs`: the root of the payload has _attributes of its own, here ones
\* that do not declare the namespaces
ReceiptPayloads ==
    {[Blank EXCEPT !.root = "ARECF", !.ids = i, !.Estado = "0"] : i \in BOOLEAN}
    \cup {[Blank EXCEPT !.root = "ARECF", !.ids = TRUE, !.Estado = "0",
                         !.attrs = TRUE]}

ApprovalPayloads ==
    {[Blank EXCEPT !.root = "ACECF", !.ids = TRUE, !.Estado = e, !.Motivo = m] :
        e \in {"1", "2"}, m \in {"", "no solicitado"}}

VoidPayloads == {[Blank EXCEPT !.root = "ANECF", !.ids = TRUE]}

\* an e-CF received from a counter-party, as XML text
ReceivedEcfs ==
    {[kind |-> "xml", decl |-> "utf-8",
      content |-> [Blank EXCEPT !.root = "ECF", !.Encabezado = TRUE, !.ids = i,
                                !.TipoeCF = 31, !.MontoTotal = 11800]] :
        i \in BOOLEAN}

----------------------------------------------------------------------------
(* CertificateService *)

\* `rnc || 'default'`
cacheKey(rnc) == IF rnc # "" THEN rnc ELSE "default"

\* what P12Reader yields for a source whose material parses: the key and
\* the certificate of that material
Credential(source, material) ==
    [kind |-> "cred", source |-> source, material |-> material]

\* the material states that do not parse
Unreadable == {"missing", "corrupt"}

\* the outcomes of getCertificate: `read` is the source it consulted ("" for
\* none), `cache` the cache afterwards
Hit(cache, c) ==
    [ok |-> TRUE, status |-> 200, message |-> "", certs |-> c, read |-> "",
     cache |-> cache]
Loaded(cache, key, c) ==
    [ok |-> TRUE, status |-> 200, message |-> "", certs |-> c, read |-> c.source,
     cache |-> [k \in DOMAIN cache \cup {key} |-> IF k = key THEN c ELSE cache[k]]]
\* every throw inside the try, the 404 of a missing file included, is
\* rethrown by the catch as a 500 that carries the message of the cause
Rethrown(cache, source, message) ==
    [ok |-> FALSE, status |-> 500,
     message |-> "Error loading certificate: " \o message,
     certs |-> None, read |-> source, cache |-> cache]

\* variant: a credential loaded on a miss is returned and not stored
getCertificate_NoStore(cache, rnc) ==
    LET key == cacheKey(rnc)
        certificatePath == IF rnc # "" THEN rnc \o ".p12" ELSE DefaultCertificate
        source == IF config.certificateBase64 # "" /\ rnc = "" THEN "base64"
                  ELSE certificatePath
        material == IF source = "base64" THEN config.certificateBase64
                    ELSE files[source]
    IN  IF key \in DOMAIN cache THEN Hit(cache, cache[key])
        ELSE IF material \in Unreadable THEN Rethrown(cache, source, "parse")
        ELSE [Loaded(cache, key, Credential(source, material)) EXCEPT
                !.cache = cache]

\* variant: the default credential comes from the file when the file is
\* there, and from the blob only otherwise
getCertificate_FileFirst(cache, rnc) ==
    LET key == cacheKey(rnc)
        certificatePath == IF rnc # "" THEN rnc \o ".p12" ELSE DefaultCertificate
        source == IF config.certificateBase64 # "" /\ rnc = ""
                     /\ files[certificatePath] = "missing"
                  THEN "base64" ELSE certificatePath
        material == IF source = "base64" THEN config.certificateBase64
                    ELSE files[source]
    IN  IF key \in DOMAIN cache THEN Hit(cache, cache[key])
        ELSE IF material \in Unreadable THEN Rethrown(cache, source, "parse")
        ELSE Loaded(cache, key, Credential(source, material))

\* variant: a hit loads the credential again and stores it over the entry
getCertificate_Reload(cache, rnc) ==
    LET key == cacheKey(rnc)
        certificatePath == IF rnc # "" THEN rnc \o ".p12" ELSE DefaultCertificate
        source == IF config.certificateBase64 # "" /\ rnc = "" THEN "base64"
                  ELSE certificatePath
        material == IF source = "base64" THEN config.certificateBase64
                    ELSE files[source]
    IN  IF material \in Unreadable
        THEN IF key \in DOMAIN cache THEN Hit(cache, cache[key])
             ELSE Rethrown(cache, source, "parse")
        ELSE Loaded(cache, key, Credential(source, material))

\* variant: a load that fails leaves an entry for the key, which later
\* resolves are served
getCertificate_StoresFailure(cache, rnc) ==
    LET key == cacheKey(rnc)
        certificatePath == IF rnc # "" THEN rnc \o ".p12" ELSE DefaultCertificate
        source == IF config.certificateBase64 # "" /\ rnc = "" THEN "base64"
                  ELSE certificatePath
        material == IF source = "base64" THEN config.certificateBase64
                    ELSE files[source]
    IN  IF key \in DOMAIN cache THEN Hit(cache, cache[key])
        ELSE IF material \in Unreadable
        THEN [Rethrown(cache, source, "parse") EXCEPT
                !.cache = Loaded(cache, key, Credential(source, material)).cache]
        ELSE Loaded(cache, key, Credential(source, material))

\* getCertificate(rnc) evaluated on a cache
getCertificate(cache, rnc) ==
    LET key == cacheKey(rnc)
        certificatePath == IF rnc # "" THEN rnc \o ".p12" ELSE DefaultCertificate
    IN  IF key \in DOMAIN cache THEN Hit(cache, cache[key])
        ELSE IF config.certificateBase64 # "" /\ rnc = ""
             THEN IF config.certificateBase64 \notin Unreadable
                  THEN Loaded(cache, key,
                              Credential("base64", config.certificateBase64))
                  ELSE Rethrown(cache, "base64", "parse")
        ELSE IF files[certificatePath] = "missing"
             THEN Rethrown(cache, certificatePath, "Certificate not found for RNC")
        ELSE IF files[certificatePath] = "corrupt"
             THEN Rethrown(cache, certificatePath, "parse")
        ELSE Loaded(cache, key, Credential(certificatePath, files[certificatePath]))

\* clearCache(rnc) evaluated on a cache: the cache afterwards
clearCache(cache, rnc) ==
    IF rnc # ""
    THEN [k \in DOMAIN cache \ {rnc} |-> cache[k]]
    ELSE [k \in {} |-> None]

\* the count of loads after a getCertificate with outcome c for key
Counted(count, key, c) ==
    IF c.ok /\ c.read # "" THEN [count EXCEPT ![key] = @ + 1] ELSE count

----------------------------------------------------------------------------
(* The capabilities of the dgii-ecf library, by what they return *)

\* Transformer.json2xml: the XML text of a JSON body
json2xml(data) == [kind |-> "xml", decl |-> "utf-8", content |-> data]

\* Signature.signXml(xml, documentType) with the key of a credential
Signature(certs, xml, documentType) ==
    [kind |-> "signed", tag |-> documentType, by |-> certs, xml |-> xml]

\* getCodeSixDigitfromSignature: a function of the signed XML alone
getCodeSixDigitfromSignature(signedXml) == [kind |-> "code", of |-> signedXml]

\* Transformer.xml2Json of a signed document
xml2Json(signedXml) == [kind |-> "json", of |-> signedXml]

\* ReceivedStatus
Recibido == "0"
NoRecibido == "1"

\* SenderReceiver.getECFDataFromXML(ecfXml, rncReceptor, status, code): the
\* acknowledgment body for a received e-CF, with the state and the reason code
\* it was given ("" when the code is undefined)
getECFDataFromXML(ecfXml, rncReceptor, status, code) ==
    [kind |-> "xml", decl |-> "none",
     content |-> [Blank EXCEPT !.root = "ARECF", !.ids = ecfXml.content.ids,
                               !.Estado = status, !.Codigo = code, !.ns = TRUE]]

\* generateEcfQRCodeURL / generateFcQRCodeURL: the reference URL, by its
\* scheme and the query parameters it is given
generateEcfQRCodeURL(rnc, rncComprador, encf, montoTotal, fechaEmision, fechaFirma, securityCode) ==
    [kind |-> "url", scheme |-> "ecf", rnc |-> rnc, rncComprador |-> rncComprador,
     encf |-> encf, montoTotal |-> montoTotal, fechaEmision |-> fechaEmision,
     fechaFirma |-> fechaFirma, securityCode |-> securityCode]
generateFcQRCodeURL(rnc, encf, montoTotal, securityCode) ==
    [kind |-> "url", scheme |-> "fc", rnc |-> rnc, encf |-> encf,
     montoTotal |-> montoTotal, securityCode |-> securityCode]

\* new Date().toISOString(), and its date part
Now == "now"
Today == "today"

----------------------------------------------------------------------------
(* Pure parts of DGIIService *)

\* upper case of a character of a document number
Upper(c) == IF c = "e" THEN "E" ELSE c

\* /E32/i.test(encf): the document number, a sequence of characters, holds
\* an E or e followed by 3 and 2 at some place
isFacturaConsumo(encf) ==
    \E i \in 1..(Len(encf) - 2) :
        Upper(encf[i]) = "E" /\ encf[i + 1] = "3" /\ encf[i + 2] = "2"

\* generateQRCode(params): "" stands for a parameter that is absent
generateQRCode(params) ==
    IF isFacturaConsumo(params.encf)
    THEN generateFcQRCodeURL(params.rncEmisor, params.encf, params.montoTotal,
                             params.securityCode)
    ELSE IF params.fechaEmision # "" /\ params.fechaFirma # ""
    THEN generateEcfQRCodeURL(params.rncEmisor, params.rncComprador, params.encf,
                              ToString(params.montoTotal), params.fechaEmision,
                              params.fechaFirma, params.securityCode)
    ELSE generateEcfQRCodeURL(params.rncEmisor, params.rncComprador, params.encf,
                              ToString(params.montoTotal), Today, Now,
                              params.securityCode)

\* variant: the summary keeps the security code of the payload it was built from
rfceData_OwnCode(ecfData, rnc, encf, ecfSecurityCode) ==
    [Blank EXCEPT !.root = "RFCE", !.Encabezado = TRUE, !.ids = TRUE,
                  !.TipoeCF = TipoConsumo,
                  !.MontoTotal = ecfData.MontoTotal,
                  !.CodigoSeguridadeCF = ecfData.CodigoSeguridadeCF]

\* sendSummaryWithEcf, step 2: the summary built from the invoice header
rfceData(ecfData, rnc, encf, ecfSecurityCode) ==
    [Blank EXCEPT !.root = "RFCE", !.Encabezado = TRUE, !.ids = TRUE,
                  !.TipoeCF = TipoConsumo,
                  !.MontoTotal = ecfData.MontoTotal,
                  !.CodigoSeguridadeCF = ecfSecurityCode]

\* sendReceipt: the receipt with the namespaces added to its root; the
\* payload is spread after them, so _attributes of its own replace them
dataWithNamespaces(receiptData) ==
    [receiptData EXCEPT !.ns = IF receiptData.attrs THEN receiptData.ns ELSE TRUE]

\* variant: the reason is written whenever one was supplied
acecfData_AnyReason(data) ==
    [Blank EXCEPT !.root = "ACECF", !.ids = TRUE, !.ns = TRUE,
                  !.MontoTotal = data.MontoTotal,
                  !.Estado = data.Estado,
                  !.Motivo = data.Motivo]

\* generateAcecfXml: the approval body; the reason only for a rejection
acecfData(data) ==
    [Blank EXCEPT !.root = "ACECF", !.ids = TRUE, !.ns = TRUE,
                  !.MontoTotal = data.MontoTotal,
                  !.Estado = data.Estado,
                  !.Motivo = IF data.Estado = "2" /\ data.Motivo # ""
                             THEN data.Motivo ELSE ""]

\* extractEcfInfo: the identifying fields found in the received XML; its
\* catch answers an empty object when the XML cannot be read
extractEcfInfo(ecfXml) ==
    IF ecfXml.kind = "none"
    THEN [kind |-> "info", eNCF |-> "", rncEmisor |-> "", rncComprador |-> "",
          montoTotal |-> 0]
    ELSE [kind |-> "info",
          eNCF |-> IF ecfXml.content.ids THEN "E310000000001" ELSE "",
          rncEmisor |-> IF ecfXml.content.ids THEN "131880600" ELSE "",
          rncComprador |-> IF ecfXml.content.ids THEN RncReceptor ELSE "",
          montoTotal |-> ecfXml.content.MontoTotal]

----------------------------------------------------------------------------
(* DGIIService.signXml *)

\* variant: a signing error is swallowed and the XML goes on unsigned
signXml_Swallow(cache, xmlData, documentType, rnc, signs) ==
    LET c == getCertificate(cache, rnc)
        signedXml == Signature(c.certs, xmlData, documentType)
    IN  IF c.ok /\ signs
        THEN [ok |-> TRUE, status |-> 200, cache |-> c.cache,
              signedXml |-> signedXml,
              securityCode |-> getCodeSixDigitfromSignature(signedXml)]
        ELSE [ok |-> TRUE, status |-> 200, cache |-> c.cache,
              signedXml |-> xmlData, securityCode |-> None]

\* variant: the code is derived from the XML before it was signed
signXml_CodeOfInput(cache, xmlData, documentType, rnc, signs) ==
    LET c == getCertificate(cache, rnc)
        signedXml == Signature(c.certs, xmlData, documentType)
    IN  IF c.ok /\ signs
        THEN [ok |-> TRUE, status |-> 200, cache |-> c.cache,
              signedXml |-> signedXml,
              securityCode |-> getCodeSixDigitfromSignature(xmlData)]
        ELSE [ok |-> FALSE, status |-> 500, cache |-> c.cache,
              signedXml |-> None, securityCode |-> None]

\* signXml(xmlData, documentType, rnc) on a cache; `signs` is whether the
\* library's Signature.signXml succeeds on this input
signXml(cache, xmlData, documentType, rnc, signs) ==
    LET c == getCertificate(cache, rnc)
        signedXml == Signature(c.certs, xmlData, documentType)
    IN  IF c.ok /\ signs
        THEN [ok |-> TRUE, status |-> 200, cache |-> c.cache,
              signedXml |-> signedXml,
              securityCode |-> getCodeSixDigitfromSignature(signedXml)]
        ELSE [ok |-> FALSE, status |-> 500, cache |-> c.cache,
              signedXml |-> None, securityCode |-> None]

----------------------------------------------------------------------------
(* Steps: a handler is a list of steps, run in order; a step that throws
   ends the request with the error status *)

St(do) == [do |-> do, a |-> "", b |-> "", c |-> "", d |-> "", flag |-> FALSE]
GetCert == St("getCertificate")
Auth == St("authenticate")
Pure(name) == [St("pure") EXCEPT !.a = name]
Lib(name) == [St("lib") EXCEPT !.a = name]
Sign(from, tag, into, code) ==
    [St("signXml") EXCEPT !.a = from, !.b = tag, !.c = into, !.d = code]
Submit(via, doc) == [St("submit") EXCEPT !.a = via, !.b = doc]
Decide(accepted, rejectCode) ==
    [St("decide") EXCEPT !.flag = accepted, !.a = rejectCode]
Notify == St("notifyOdoo")
ExtractInfo == St("extractEcfInfo")
Return == St("return")

(* DGIIService: the step list of each method, in source order *)

\* variant: the invoice is routed to the summary operation
sendInvoice_ViaSummary ==
    << GetCert, Auth, Lib("json2xml"),
       Sign("xml", "ECF", "signedXml", "securityCode"),
       Submit("sendSummary", "signedXml") >>

sendInvoice ==
    << GetCert, Auth, Lib("json2xml"),
       Sign("xml", "ECF", "signedXml", "securityCode"),
       Submit("sendElectronicDocument", "signedXml") >>

sendSummary ==
    << GetCert, Auth, Lib("json2xml"),
       Sign("xml", "RFCE", "signedXml", "securityCode"),
       Submit("sendSummary", "signedXml") >>

\* variant: the full invoice is submitted in place of the summary
sendSummaryWithEcf_SubmitsInvoice ==
    << GetCert, Auth, Lib("json2xml"),
       Sign("xml", "ECF", "signedEcfXml", "ecfSecurityCode"),
       Pure("rfceData"), Lib("json2xmlRfce"),
       Sign("rfceXml", "RFCE", "signedRfceXml", "rfceSecurityCode"),
       Submit("sendSummary", "signedEcfXml") >>

sendSummaryWithEcf ==
    << GetCert, Auth, Lib("json2xml"),
       Sign("xml", "ECF", "signedEcfXml", "ecfSecurityCode"),
       Pure("rfceData"), Lib("json2xmlRfce"),
       Sign("rfceXml", "RFCE", "signedRfceXml", "rfceSecurityCode"),
       Submit("sendSummary", "signedRfceXml") >>

sendReceipt ==
    << Pure("receiptFileName"), GetCert, Pure("dataWithNamespaces"),
       Lib("json2xmlReceipt"),
       Sign("xml", "ARECF", "signedXml", "securityCode"),
       Auth, Submit("sendElectronicDocument", "signedXml") >>

\* variant: the approval is submitted a second time
sendApproval_Resubmits ==
    << GetCert, Auth, Lib("json2xml"),
       Sign("xml", "ACECF", "signedXml", "securityCode"),
       Submit("sendCommercialApproval", "signedXml"),
       Submit("sendCommercialApproval", "signedXml") >>

sendApproval ==
    << GetCert, Auth, Lib("json2xml"),
       Sign("xml", "ACECF", "signedXml", "securityCode"),
       Submit("sendCommercialApproval", "signedXml") >>

\* variant: the void request is signed before the authority is asked for a
\* token
voidSequence_SignsFirst ==
    << GetCert, Lib("json2xml"),
       Sign("xml", "ANECF", "signedXml", "securityCode"),
       Auth, Submit("voidENCF", "signedXml") >>

voidSequence ==
    << GetCert, Auth, Lib("json2xml"),
       Sign("xml", "ANECF", "signedXml", "securityCode"),
       Submit("voidENCF", "signedXml") >>

sendCommercialApproval ==
    << Lib("generateAcecfXml"),
       Sign("xml", "ACECF", "signedXml", "securityCode"),
       GetCert, Submit("sendCommercialApproval", "signedXml") >>

processCommercialApproval ==
    << Pure("approvalFromEcf") >> \o sendCommercialApproval

processReceivedEcf(accepted, rejectCode) ==
    << ExtractInfo, Decide(accepted, rejectCode),
       Lib("getECFDataFromXML"),
       Sign("xml", "ARECF", "signedXml", "securityCode"),
       Lib("xml2Json"), Notify >>

processMultipartEcf ==
    << Lib("parseMultipart") >> \o processReceivedEcf(TRUE, "")

----------------------------------------------------------------------------
(* Requests *)

Encfs == {"E310000000001", "E320000000001"}

\* the API key of the configuration, and the values of the x-api-key header
ApiKey == "development_api_key"
ApiKeys == {"", "another_key", ApiKey}

BaseReq == [op |-> "", rnc |-> "", encf |-> "", payload |-> Blank,
            contentType |-> "", body |-> None, accepted |-> "",
            rejectCode |-> "", rncReceptor |-> "", apiKey |-> ApiKey]

\* the body of an approval request: required fields present or not, state, reason
AcecfBodies ==
    {[Blank EXCEPT !.ids = FALSE, !.Estado = "1"]} \cup
    {[Blank EXCEPT !.ids = TRUE, !.MontoTotal = 11800, !.Estado = e, !.Motivo = m] :
        e \in {"1", "2", "3"}, m \in {"", "no solicitado"}}

TheReceivedEcf == CHOOSE x \in ReceivedEcfs : x.content.ids

Requests ==
    {[BaseReq EXCEPT !.op = "sendInvoice", !.rnc = r, !.encf = e, !.payload = p] :
        r \in RncValues, e \in Encfs, p \in InvoicePayloads}
    \cup
    {[BaseReq EXCEPT !.op = "sendSummary", !.rnc = r, !.encf = "E320000000001",
                     !.payload = p] : r \in RncValues, p \in SummaryPayloads}
    \cup
    {[BaseReq EXCEPT !.op = "sendSummaryWithEcf", !.rnc = r,
                     !.encf = "E320000000001", !.payload = p] :
        r \in RncValues, p \in InvoicePayloads}
    \cup
    {[BaseReq EXCEPT !.op = "sendReceipt", !.rnc = r, !.payload = p] :
        r \in RncValues, p \in ReceiptPayloads}
    \cup
    {[BaseReq EXCEPT !.op = "sendApproval", !.rnc = r, !.payload = p] :
        r \in RncValues, p \in ApprovalPayloads}
    \cup
    {[BaseReq EXCEPT !.op = "voidSequence", !.rnc = r, !.payload = p] :
        r \in RncValues, p \in VoidPayloads}
    \cup
    {[BaseReq EXCEPT !.op = "sendAcecf", !.rnc = r, !.payload = p] :
        r \in RncValues, p \in AcecfBodies}
    \cup
    {[BaseReq EXCEPT !.op = "processAcecfFromEcf", !.rnc = r, !.payload = p,
                     !.body = b] :
        r \in RncValues, p \in {q \in AcecfBodies : q.ids},
        b \in ReceivedEcfs \cup {None}}
    \cup
    {[BaseReq EXCEPT !.op = "receiveEcf", !.rnc = r, !.contentType = ct,
                     !.body = b, !.accepted = a, !.rejectCode = c,
                     !.rncReceptor = rr] :
        r \in RncValues,
        ct \in {"multipart/form-data", "application/json", "application/xml"},
        b \in {TheReceivedEcf, None}, a \in {"", "str:false"}, c \in {"", "1"},
        rr \in {"", RncReceptor}}
    \cup
    {[BaseReq EXCEPT !.op = "receiveEcfJson", !.rnc = r, !.body = b,
                     !.accepted = a, !.rejectCode = c, !.rncReceptor = rr] :
        r \in RncValues, b \in {TheReceivedEcf, None},
        a \in {"", "bool:false"}, c \in {"", "1"}, rr \in {"", RncReceptor}}

----------------------------------------------------------------------------
(* Controllers: the steps of each HTTP handler *)

Steps(rq) ==
    CASE rq.op = "sendInvoice" -> << Pure("schemaSendInvoice") >> \o sendInvoice
      [] rq.op = "sendSummary" -> sendSummary
      [] rq.op = "sendSummaryWithEcf" -> sendSummaryWithEcf
      [] rq.op = "sendReceipt" -> sendReceipt
      [] rq.op = "sendApproval" -> sendApproval
      [] rq.op = "voidSequence" -> voidSequence
      [] rq.op = "sendAcecf" -> << Pure("sendAcecf") >> \o sendCommercialApproval
      [] rq.op = "processAcecfFromEcf" ->
            << Pure("processAcecfFromEcf") >> \o processCommercialApproval
      [] rq.op = "receiveEcf" ->
            << Pure("rncReceptor") >> \o
            (IF rq.contentType = "multipart/form-data" THEN processMultipartEcf
             ELSE IF rq.contentType = "application/json"
                  THEN << Pure("ecfXmlRequired") >> \o
                       processReceivedEcf(rq.accepted # "str:false", rq.rejectCode)
             ELSE << Pure("rawXml") >> \o
                  processReceivedEcf(rq.accepted # "str:false", rq.rejectCode))
      [] rq.op = "receiveEcfJson" ->
            << Pure("receiveEcfJson") >> \o
            processReceivedEcf(rq.accepted # "bool:false", rq.rejectCode)

Program(rq) == Steps(rq) \o << Return >>

\* every request of the API with every value of its x-api-key header
Arrivals == {[rq EXCEPT !.apiKey = k] : rq \in Requests, k \in ApiKeys}

----------------------------------------------------------------------------
(* Local variables of a handler *)

LocalNames == {"payload", "received", "data", "certs", "xml", "signedXml",
               "securityCode", "signedEcfXml", "ecfSecurityCode", "rfceData",
               "rfceXml", "signedRfceXml", "rfceSecurityCode", "ecfInfo",
               "status", "code", "arecfData", "response", "qrCodeUrl"}

InitialLocal(rq) ==
    [n \in LocalNames |->
        IF n = "payload" THEN rq.payload
        ELSE IF n = "received" THEN rq.body
        ELSE None]

Done(l) == [ok |-> TRUE, status |-> 200, local |-> l]
Thrown(status, l) == [ok |-> FALSE, status |-> status, local |-> l]

(* The synchronous checks and computations of the handlers.  A check made
   inside a service method throws into that method's catch, which rethrows
   it as a 500; a check made in a controller answers 400 itself. *)

\* validateRequest(schemas.sendInvoice): rnc and encf are required strings
schemaSendInvoice(rq, l) ==
    IF rq.rnc = "" \/ rq.encf = "" THEN Thrown(400, l) ELSE Done(l)

\* sendSummaryWithEcf: the header is required, then the summary is built
toRfce(rq, l) ==
    IF ~l.payload.Encabezado THEN Thrown(500, l)
    ELSE Done([l EXCEPT !["rfceData"] =
                  rfceData(l.payload, rq.rnc, rq.encf, l.ecfSecurityCode)])

\* sendReceipt: RNCComprador and eNCF are required for the file name
receiptFileName(rq, l) ==
    IF ~l.payload.ids THEN Thrown(500, l) ELSE Done(l)

\* sendReceipt: namespaces added before the transform
withNamespaces(rq, l) ==
    Done([l EXCEPT !["data"] = dataWithNamespaces(l.payload)])

\* controller sendAcecf: required fields, state 1 or 2, reason for a rejection
sendAcecf(rq, l) ==
    IF ~rq.payload.ids \/ rq.payload.Estado = "" THEN Thrown(400, l)
    ELSE IF rq.payload.Estado \notin {"1", "2"} THEN Thrown(400, l)
    ELSE IF rq.payload.Estado = "2" /\ rq.payload.Motivo = "" THEN Thrown(400, l)
    ELSE Done([l EXCEPT !["data"] = rq.payload])

\* controller processAcecfFromEcf: ecfXml and estado required, same rules
processAcecfFromEcf(rq, l) ==
    IF rq.body.kind = "none" \/ rq.payload.Estado = "" THEN Thrown(400, l)
    ELSE IF rq.payload.Estado \notin {"1", "2"} THEN Thrown(400, l)
    ELSE IF rq.payload.Estado = "2" /\ rq.payload.Motivo = "" THEN Thrown(400, l)
    ELSE Done(l)

\* processCommercialApproval: the approval data taken from the received e-CF
approvalFromEcf(rq, l) ==
    LET ecfInfo == extractEcfInfo(l.received)
    IN  IF ecfInfo.eNCF = "" \/ ecfInfo.rncEmisor = "" \/ ecfInfo.rncComprador = ""
        THEN Thrown(500, l)
        ELSE Done([l EXCEPT !["ecfInfo"] = ecfInfo,
                            !["data"] = [Blank EXCEPT !.ids = TRUE,
                                            !.MontoTotal = ecfInfo.montoTotal,
                                            !.Estado = rq.payload.Estado,
                                            !.Motivo = rq.payload.Motivo]])

\* controller receiveEcf: rncReceptor from the query or the configuration
rncReceptor(rq, l) ==
    IF rq.rncReceptor = "" /\ config.rncReceptor = "" THEN Thrown(400, l)
    ELSE Done(l)

\* variant: a JSON body without ecfXml is let through
ecfXmlRequired_Unchecked(rq, l) == Done(l)

\* controller receiveEcf, JSON body: ecfXml is required
ecfXmlRequired(rq, l) == IF rq.body.kind = "none" THEN Thrown(400, l) ELSE Done(l)

\* controller receiveEcf, any other body: must be text holding an XML prolog
rawXml(rq, l) == IF rq.body.kind = "none" THEN Thrown(400, l) ELSE Done(l)

\* controller receiveEcfJson: ecfXml and rncReceptor are required
receiveEcfJson(rq, l) ==
    IF rq.body.kind = "none" \/ rq.rncReceptor = "" THEN Thrown(400, l) ELSE Done(l)

\* variant: a received document that cannot be read ends the request
ecfInfoStep_Rethrows(rq, l, parses) ==
    IF parses THEN Done([l EXCEPT !["ecfInfo"] = extractEcfInfo(l.received)])
    ELSE Thrown(500, l)

\* processReceivedEcf: the header fields of the received document; when the
\* parser throws, the catch of extractEcfInfo answers an empty object and
\* the pipeline goes on
ecfInfoStep(rq, l, parses) ==
    Done([l EXCEPT !["ecfInfo"] =
            IF parses THEN extractEcfInfo(l.received) ELSE extractEcfInfo(None)])

PureStep(name, rq, l) ==
    CASE name = "schemaSendInvoice" -> schemaSendInvoice(rq, l)
      [] name = "rfceData" -> toRfce(rq, l)
      [] name = "receiptFileName" -> receiptFileName(rq, l)
      [] name = "dataWithNamespaces" -> withNamespaces(rq, l)
      [] name = "sendAcecf" -> sendAcecf(rq, l)
      [] name = "processAcecfFromEcf" -> processAcecfFromEcf(rq, l)
      [] name = "approvalFromEcf" -> approvalFromEcf(rq, l)
      [] name = "rncReceptor" -> rncReceptor(rq, l)
      [] name = "ecfXmlRequired" -> ecfXmlRequired(rq, l)
      [] name = "rawXml" -> rawXml(rq, l)
      [] name = "receiveEcfJson" -> receiveEcfJson(rq, l)

\* processReceivedEcf: the state and the reason code of the acknowledgment
decide(accepted, rejectCode, l) ==
    [l EXCEPT !["status"] = IF accepted THEN Recibido ELSE NoRecibido,
              !["code"] = IF accepted THEN "" ELSE rejectCode]

(* Calls into the library that may throw: what each leaves in the locals
   when it succeeds, and the inputs on which it cannot succeed *)

LibCan(name, rq, l) ==
    CASE name = "parseMultipart" -> rq.body.kind # "none"
      [] name = "getECFDataFromXML" -> l.received.kind # "none"
      [] OTHER -> TRUE

LibStep(name, rq, l) ==
    CASE name = "json2xml" -> [l EXCEPT !["xml"] = json2xml(l.payload)]
      [] name = "json2xmlRfce" -> [l EXCEPT !["rfceXml"] = json2xml(l.rfceData)]
      [] name = "json2xmlReceipt" ->
            [l EXCEPT !["xml"] = [json2xml(l.data) EXCEPT !.decl = "1.0"]]
      [] name = "generateAcecfXml" ->
            [l EXCEPT !["xml"] = json2xml(acecfData(l.data))]
      [] name = "getECFDataFromXML" ->
            [l EXCEPT !["xml"] =
                getECFDataFromXML(l.received,
                    IF rq.rncReceptor # "" THEN rq.rncReceptor ELSE config.rncReceptor,
                    l.status, l.code)]
      [] name = "xml2Json" -> [l EXCEPT !["arecfData"] = xml2Json(l.signedXml)]
      [] name = "parseMultipart" -> [l EXCEPT !["received"] = rq.body]

----------------------------------------------------------------------------
(* What each handler answers on success *)

\* the fields of the returned object, by handler
Returned(op) ==
    CASE op = "sendInvoice" -> {"response", "signedXml", "securityCode", "qrCodeUrl"}
      [] op = "sendSummary" -> {"response", "signedXml", "securityCode"}
      [] op = "sendSummaryWithEcf" ->
            {"response", "signedEcfXml", "signedRfceXml", "ecfSecurityCode",
             "rfceSecurityCode", "qrCodeUrl"}
      [] op \in {"sendReceipt", "sendApproval", "voidSequence", "sendAcecf"} ->
            {"response", "signedXml"}
      [] op = "processAcecfFromEcf" -> {"response", "signedXml", "ecfInfo"}
      [] op = "receiveEcf" -> {"signedXml"}
      [] op = "receiveEcfJson" -> {"signedXml", "arecfData"}

\* the reference URL built before returning
qrCodeUrl(rq, l) ==
    CASE rq.op = "sendInvoice" ->
            generateEcfQRCodeURL(rq.rnc, "Comprador.RNCComprador", rq.encf,
                                 l.payload.MontoTotal, "Emisor.FechaEmision",
                                 Now, l.securityCode)
      [] rq.op = "sendSummaryWithEcf" ->
            generateFcQRCodeURL(rq.rnc, rq.encf, l.payload.MontoTotal, l.ecfSecurityCode)
      [] OTHER -> None

\* a field of the authority's response
Foreign == [kind |-> "foreign"]

\* the fields that `...response` spreads into the returned object: those of a
\* response that carries fields named like the handler's own
Spread(rq, l) ==
    IF rq.op \in {"sendInvoice", "sendSummary", "sendSummaryWithEcf",
                  "sendReceipt", "sendApproval", "voidSequence"}
       /\ l.response.kind = "response" /\ l.response.named
    THEN {"signedXml", "securityCode"}
    ELSE {}

\* variant: the response is spread after the handler's own fields
Response_SpreadLast(rq, l) ==
    LET full == [l EXCEPT !["qrCodeUrl"] = qrCodeUrl(rq, l)]
    IN  [kind |-> "response", ok |-> TRUE, status |-> 200,
         data |-> [n \in Returned(rq.op) \cup Spread(rq, l) |->
                      IF n \in Spread(rq, l) THEN Foreign ELSE full[n]]]

\* `{...response, signedXml, ...}`: the handler's own fields are listed after
\* the spread and win over fields of the same name
Response(rq, l) ==
    LET full == [l EXCEPT !["qrCodeUrl"] = qrCodeUrl(rq, l)]
    IN  [kind |-> "response", ok |-> TRUE, status |-> 200,
         data |-> [n \in Returned(rq.op) \cup Spread(rq, l) |->
                      IF n \in Returned(rq.op) THEN full[n] ELSE Foreign]]

Failure(status) ==
    [kind |-> "response", ok |-> FALSE, status |-> status, data |-> None]

\* variant: a failed POST is attempted again
notifyOdoo_Retries(task, delivered) ==
    IF delivered THEN [task EXCEPT !.state = "delivered"]
    ELSE [task EXCEPT !.posts = @ + 1]

\* notifyOdoo once its POST has completed: a failure is logged, nothing else
notifyOdoo(task, delivered) ==
    [task EXCEPT !.state = IF delivered THEN "delivered" ELSE "failed"]

----------------------------------------------------------------------------
(* State machine *)

Call(name, ok) ==
    [call |-> name, ok |-> ok, how |-> IF ok THEN "ok" ELSE "error",
     tag |-> "", arg |-> None, out |-> None, code |-> None, by |-> None]

SubmitCalls == {"sendElectronicDocument", "sendSummary",
                "sendCommercialApproval", "voidENCF"}

Init ==
    /\ config \in [certificateBase64 : {"", "valid"},
                   odooWebhookUrl : {"", "https://odoo.example/webhook"},
                   rncReceptor : {""}, apiKey : {ApiKey}]
    /\ files \in [FileNames -> {"missing", "corrupt", "valid"}]
    /\ certificates = [k \in {} |-> None]
    /\ nreq = 0
    /\ req = BaseReq
    /\ pc = 0
    /\ local = InitialLocal(BaseReq)
    /\ calls = << >>
    /\ result = None
    /\ outcome = << >>
    /\ notify = << >>
    /\ loads = [k \in CacheKeys |-> 0]
    /\ evictions = [k \in CacheKeys |-> 0]
    /\ last = None
    /\ qr = None

Cur == Program(req)[pc]

Running(do) == pc > 0 /\ Cur.do = do

\* the step threw: the error handler answers with the status
Fail(status) ==
    /\ pc' = 0
    /\ result' = Failure(status)
    /\ outcome' = [outcome EXCEPT ![nreq] = "failed"]

Advance ==
    /\ pc' = pc + 1
    /\ UNCHANGED <<result, outcome>>

\* variant: any key that is present passes
authenticate_AnyKey(rq) == rq.apiKey # ""

\* the middleware in front of /api: the x-api-key header is present and is
\* the configured key
authenticate(rq) == rq.apiKey # "" /\ rq.apiKey = config.apiKey

\* a request arrives: the middleware throws 401, or the handler starts
Start(arrivals) ==
    /\ pc = 0
    /\ result.kind = "none"
    /\ nreq < MaxRequests
    /\ \E rq \in arrivals :
        /\ req' = rq
        /\ local' = InitialLocal(rq)
        /\ IF authenticate(rq)
           THEN /\ pc' = 1
                /\ result' = None
                /\ outcome' = Append(outcome, "running")
           ELSE /\ pc' = 0
                /\ result' = Failure(401)
                /\ outcome' = Append(outcome, "failed")
    /\ nreq' = nreq + 1
    /\ calls' = << >>
    /\ notify' = Append(notify, [state |-> "none", posts |-> 0])
    /\ UNCHANGED <<loads, evictions, last, qr, config, files, certificates>>

StartRequest == Start(Arrivals)

DoPure ==
    /\ Running("pure")
    /\ LET r == PureStep(Cur.a, req, local)
       IN  IF r.ok THEN local' = r.local /\ Advance
           ELSE Fail(r.status) /\ UNCHANGED local
    /\ UNCHANGED <<loads, evictions, last, qr, config, files, certificates, nreq, req, calls, notify>>

DoExtractEcfInfo ==
    /\ Running("extractEcfInfo")
    /\ \E parses \in BOOLEAN :
        LET r == ecfInfoStep(req, local, parses)
        IN  /\ calls' = Append(calls, Call("extractEcfInfo", parses))
            /\ IF r.ok THEN local' = r.local /\ Advance
               ELSE Fail(r.status) /\ UNCHANGED local
    /\ UNCHANGED <<loads, evictions, last, qr, config, files, certificates, nreq, req, notify>>

DoDecide ==
    /\ Running("decide")
    /\ local' = decide(Cur.flag, Cur.a, local)
    /\ Advance
    /\ UNCHANGED <<loads, evictions, last, qr, config, files, certificates, nreq, req, calls, notify>>

DoGetCertificate ==
    /\ Running("getCertificate")
    /\ LET c == getCertificate(certificates, req.rnc)
       IN  /\ certificates' = c.cache
           /\ loads' = Counted(loads, cacheKey(req.rnc), c)
           /\ calls' = Append(calls, [Call("getCertificate", c.ok) EXCEPT !.out = c.certs])
           /\ IF c.ok THEN local' = [local EXCEPT !["certs"] = c.certs] /\ Advance
              ELSE Fail(500) /\ UNCHANGED local
    /\ UNCHANGED <<evictions, last, qr, config, files, nreq, req, notify>>

DoAuthenticate ==
    /\ Running("authenticate")
    /\ \E ok \in BOOLEAN :
        /\ calls' = Append(calls, [Call("authenticate", ok) EXCEPT !.by = local.certs])
        /\ IF ok THEN Advance ELSE Fail(500)
    /\ UNCHANGED <<loads, evictions, last, qr, config, files, certificates, nreq, req, local, notify>>

DoLib ==
    /\ Running("lib")
    /\ \E ok \in (IF LibCan(Cur.a, req, local) THEN BOOLEAN ELSE {FALSE}) :
        /\ calls' = Append(calls, Call(Cur.a, ok))
        /\ IF ok THEN local' = LibStep(Cur.a, req, local) /\ Advance
           ELSE Fail(500) /\ UNCHANGED local
    /\ UNCHANGED <<loads, evictions, last, qr, config, files, certificates, nreq, req, notify>>

DoSignXml ==
    /\ Running("signXml")
    /\ \E signs \in BOOLEAN :
        LET c == getCertificate(certificates, req.rnc)
            s == signXml(certificates, local[Cur.a], Cur.b, req.rnc, signs)
        IN  /\ certificates' = s.cache
            /\ loads' = Counted(loads, cacheKey(req.rnc), c)
            /\ calls' = calls \o
                 << [Call("getCertificate", c.ok) EXCEPT !.out = c.certs],
                    [Call("signXml", c.ok /\ signs) EXCEPT
                        !.tag = Cur.b, !.arg = local[Cur.a],
                        !.out = s.signedXml, !.code = s.securityCode,
                        !.by = c.certs] >>
            /\ IF s.ok
               THEN /\ local' = [local EXCEPT ![Cur.c] = s.signedXml,
                                              ![Cur.d] = s.securityCode]
                    /\ Advance
               ELSE Fail(s.status) /\ UNCHANGED local
    /\ UNCHANGED <<evictions, last, qr, config, files, nreq, req, notify>>

DoSubmit ==
    /\ Running("submit")
    /\ \E how \in {"ok", "error", "timeout"}, named \in BOOLEAN :
        /\ calls' = Append(calls, [Call(Cur.a, how = "ok") EXCEPT
                              !.how = how, !.arg = local[Cur.b], !.by = local.certs])
        /\ IF how = "ok"
           THEN /\ local' = [local EXCEPT !["response"] =
                                [kind |-> "response", trackId |-> "track",
                                 named |-> named]]
                /\ Advance
           ELSE Fail(500) /\ UNCHANGED local
    /\ UNCHANGED <<loads, evictions, last, qr, config, files, certificates, nreq, req, notify>>

\* variant: the notification carries the acknowledgment as it was generated
notifyData_Unsigned(l) ==
    [kind |-> "notification", ecfXmlReceived |-> l.received,
     arecfXmlSigned |-> l.xml, arecfStatus |-> l.status,
     arecfRejectCode |-> l.code]

\* processReceivedEcf: the object handed to notifyOdoo
notifyData(l) ==
    [kind |-> "notification", ecfXmlReceived |-> l.received,
     arecfXmlSigned |-> l.signedXml, arecfStatus |-> l.status,
     arecfRejectCode |-> l.code]

\* notifyOdoo is called and not awaited: it runs up to its POST, whose body
\* is the object it was handed
DoNotify ==
    /\ Running("notifyOdoo")
    /\ notify' = [notify EXCEPT ![nreq] =
                    IF config.odooWebhookUrl = ""
                    THEN [state |-> "skipped", posts |-> 0]
                    ELSE [state |-> "inflight", posts |-> 1]]
    /\ calls' = IF config.odooWebhookUrl = "" THEN calls
                ELSE Append(calls, [Call("axios.post", TRUE) EXCEPT
                                      !.arg = notifyData(local)])
    /\ Advance
    /\ UNCHANGED <<loads, evictions, last, qr, config, files, certificates, nreq, req, local>>

DoReturn ==
    /\ Running("return")
    /\ pc' = 0
    /\ result' = Response(req, local)
    /\ outcome' = [outcome EXCEPT ![nreq] = "ok"]
    /\ UNCHANGED <<loads, evictions, last, qr, config, files, certificates, nreq, req, local, calls, notify>>

\* the response is out: the request and everything it held is dropped
EndRequest ==
    /\ pc = 0
    /\ result.kind # "none"
    /\ req' = BaseReq
    /\ local' = InitialLocal(BaseReq)
    /\ calls' = << >>
    /\ result' = None
    /\ UNCHANGED <<loads, evictions, last, qr, config, files, certificates, nreq, pc, outcome, notify>>

\* the POST of a detached notification completes, or fails, or times out
NotifyComplete ==
    /\ \E n \in DOMAIN notify :
        /\ notify[n].state = "inflight"
        /\ \E delivered \in BOOLEAN :
            notify' = [notify EXCEPT ![n] = notifyOdoo(@, delivered)]
    /\ UNCHANGED <<loads, evictions, last, qr, config, files, certificates, nreq, req, pc, local, calls,
                   result, outcome>>

Next ==
    \/ StartRequest
    \/ DoPure
    \/ DoExtractEcfInfo
    \/ DoDecide
    \/ DoGetCertificate
    \/ DoAuthenticate
    \/ DoLib
    \/ DoSignXml
    \/ DoSubmit
    \/ DoNotify
    \/ DoReturn
    \/ EndRequest
    \/ NotifyComplete

Spec == Init /\ [][Next]_vars

----------------------------------------------------------------------------
(* Properties *)

SubmitIndexes == {i \in DOMAIN calls : calls[i].call \in SubmitCalls}
Responded == pc = 0 /\ result.kind = "response"

\* C1: every submit call to the authority is preceded, in the same request,
\* by an authenticate call that succeeded
C1_AuthenticateBeforeSubmit ==
    \A i \in SubmitIndexes :
        \E j \in 1..(i - 1) : calls[j].call = "authenticate" /\ calls[j].ok

\* the tag a document must be signed under for the call that carries it
TagForCall(call, op) ==
    CASE call = "sendElectronicDocument" ->
            IF op = "sendReceipt" THEN "ARECF" ELSE "ECF"
      [] call = "sendSummary" -> "RFCE"
      [] call = "sendCommercialApproval" -> "ACECF"
      [] call = "voidENCF" -> "ANECF"

\* C2: the document of every submit call is the signedXml that signXml
\* returned earlier in the same request, signed under the tag of its type
C2_SubmittedIsSigned ==
    \A i \in SubmitIndexes :
        /\ calls[i].arg.kind = "signed"
        /\ calls[i].arg.tag = TagForCall(calls[i].call, req.op)
        /\ \E j \in 1..(i - 1) :
              /\ calls[j].call = "signXml"
              /\ calls[j].ok
              /\ calls[j].tag = TagForCall(calls[i].call, req.op)
              /\ calls[j].out = calls[i].arg

C2_Witness ==
    /\ req.op = "sendSummaryWithEcf"
    /\ \E i \in SubmitIndexes : calls[i].ok

SubmissionOps == {"sendInvoice", "sendSummary", "sendSummaryWithEcf",
                  "sendReceipt", "sendApproval", "voidSequence", "sendAcecf",
                  "processAcecfFromEcf"}

LowerLayerCalls == {"getCertificate", "signXml", "json2xml", "json2xmlRfce",
                    "json2xmlReceipt", "generateAcecfXml"}

\* C3: when credential resolution, the transform or signing has failed in a
\* submission request, the request has ended in a failure and no submit call
\* was made
C3_NoPartialSubmission ==
    (/\ req.op \in SubmissionOps
     /\ \E i \in DOMAIN calls : calls[i].call \in LowerLayerCalls /\ ~calls[i].ok)
    => /\ SubmitIndexes = {}
       /\ Responded
       /\ ~result.ok
       /\ outcome[nreq] = "failed"

C3_Witness ==
    /\ req.op = "sendSummaryWithEcf"
    /\ \E i \in DOMAIN calls :
          calls[i].call = "signXml" /\ calls[i].tag = "RFCE" /\ ~calls[i].ok
    /\ \E i \in DOMAIN calls :
          calls[i].call = "signXml" /\ calls[i].tag = "ECF" /\ calls[i].ok
    /\ Responded

\* C4: a request makes at most one submit call; when that call fails, by an
\* error or a timeout, it is the last call of the request and the request
\* ends in a failure
C4_AtMostOneSubmit ==
    /\ Cardinality(SubmitIndexes) <= 1
    /\ \A i \in SubmitIndexes :
          ~calls[i].ok => /\ i = Len(calls)
                          /\ Responded
                          /\ ~result.ok

C4_Witness ==
    /\ \E i \in SubmitIndexes : calls[i].how = "timeout"
    /\ Responded

\* C5: in sendSummaryWithEcf the submitted summary carries the verification
\* code of the invoice signed earlier in the request, and a successful result
\* returns both that signed invoice and the signed summary
C5_SummaryCarriesInvoiceCode ==
    req.op = "sendSummaryWithEcf" =>
        \A i \in SubmitIndexes :
            \E j \in 1..(i - 1) :
                /\ calls[j].call = "signXml" /\ calls[j].tag = "ECF" /\ calls[j].ok
                /\ calls[i].arg.xml.content.CodigoSeguridadeCF =
                       getCodeSixDigitfromSignature(calls[j].out)
                /\ calls[i].arg.xml.content.CodigoSeguridadeCF #
                       getCodeSixDigitfromSignature(calls[i].arg)
                /\ (Responded /\ result.ok) =>
                       /\ result.data.signedEcfXml = calls[j].out
                       /\ result.data.signedRfceXml = calls[i].arg

C5_Witness ==
    /\ req.op = "sendSummaryWithEcf"
    /\ Responded
    /\ result.ok

SmallConsumption(p) ==
    p.Encabezado /\ p.TipoeCF = TipoConsumo /\ p.MontoTotal < SmallAmountThreshold

\* C6 as stated: the route follows the document type and the total, so an
\* invoice goes to submit-summary exactly when it is a consumption invoice
\* below the threshold
C6_RouteByTypeAndTotal ==
    req.op \in {"sendInvoice", "sendSummaryWithEcf"} =>
        \A i \in SubmitIndexes :
            (calls[i].call = "sendSummary") <=> SmallConsumption(req.payload)

\* C6 amended: the route follows the operation the caller invokes:
\* sendSummaryWithEcf signs the full invoice and submits a summary through
\* submit-summary, sendInvoice submits the invoice through
\* submit-electronic-document, whatever the type and the total
C6_RouteByOperation ==
    \A i \in SubmitIndexes :
        /\ req.op = "sendInvoice" =>
              calls[i].call = "sendElectronicDocument" /\ calls[i].arg.tag = "ECF"
        /\ req.op = "sendSummaryWithEcf" =>
              /\ calls[i].call = "sendSummary" /\ calls[i].arg.tag = "RFCE"
              /\ \E j \in 1..(i - 1) :
                    /\ calls[j].call = "signXml" /\ calls[j].tag = "ECF"
                    /\ calls[j].ok
                    /\ calls[j].arg = json2xml(req.payload)

C6_Witness ==
    /\ req.op = "sendSummaryWithEcf"
    /\ SmallConsumption(req.payload)
    /\ \E i \in SubmitIndexes : calls[i].ok
    /\ Responded /\ result.ok

ApprovalOps == {"sendAcecf", "processAcecfFromEcf", "sendApproval"}

\* C7: a rejected approval (Estado 2) without a reason is refused before
\* signXml is invoked and before any call to the authority
C7_RejectionNeedsReason ==
    (/\ req.op \in ApprovalOps
     /\ req.payload.Estado = "2"
     /\ req.payload.Motivo = "")
    => \A i \in DOMAIN calls :
          calls[i].call \notin {"signXml", "authenticate"} \cup SubmitCalls

ReceptionOps == {"receiveEcf", "receiveEcfJson"}

SignedAcks ==
    {i \in DOMAIN calls : calls[i].call = "signXml" /\ calls[i].tag = "ARECF"}

\* C8: the acknowledgment is Received unless accepted=false was passed, and
\* an acknowledgment that is signed with state NotReceived carries a reason code
C8_NotReceivedCarriesCode ==
    req.op \in ReceptionOps =>
        \A i \in SignedAcks :
            /\ req.accepted = "" => calls[i].arg.content.Estado = Recibido
            /\ calls[i].arg.content.Estado = NoRecibido =>
                  calls[i].arg.content.Codigo # ""

\* C9: whatever the shape of the envelope, a reception with accepted=false and
\* a reject code signs a NotReceived acknowledgment with that code
C9_EveryShapeHonoursDecision ==
    (/\ req.op = "receiveEcf"
     /\ req.accepted = "str:false"
     /\ req.rejectCode # "")
    => \A i \in SignedAcks :
          /\ calls[i].arg.content.Estado = NoRecibido
          /\ calls[i].arg.content.Codigo = req.rejectCode

\* C10: at most one notification attempt per received document; once the
\* notification has been started the reception does not fail, whatever
\* becomes of the notification
C10_NotificationDetached ==
    \A n \in DOMAIN notify :
        /\ notify[n].posts <= 1
        /\ notify[n].state # "none" => outcome[n] # "failed"
        /\ notify[n].state \in {"delivered", "failed"} => notify[n].posts = 1

\* one reception answered while its notification is still in flight, and one
\* answered successfully whose notification failed
C10_Witness ==
    \E m, n \in DOMAIN notify :
        /\ outcome[m] = "ok" /\ notify[m].state = "inflight"
        /\ outcome[n] = "ok" /\ notify[n].state = "failed" /\ notify[n].posts = 1

----------------------------------------------------------------------------
(* The credential cache on its own: CertificateService is resolved and
   evicted in any order by its callers, while the operator installs or
   renews the material on disk.  getCertificate and clearCache are
   synchronous, so concurrent requests interleave whole calls. *)

\* what a caller may pass as rnc: nothing, a tax id, or the word that
\* getCertificate uses as the key of the default credential
TenantIds == {"", TaxId, "default"}

CacheFileNames == FileNames \cup {"default.p12"}

\* the request-scoped state, idle in this specification
requestVars == <<nreq, req, pc, local, calls, result, outcome, notify>>

CacheInit ==
    /\ config \in [certificateBase64 : {"", "valid"},
                   odooWebhookUrl : {""},
                   rncReceptor : {""}, apiKey : {ApiKey}]
    /\ files \in [CacheFileNames -> {"missing", "corrupt", "valid"}]
    /\ certificates = [k \in {} |-> None]
    /\ nreq = 0
    /\ req = BaseReq
    /\ pc = 0
    /\ local = InitialLocal(BaseReq)
    /\ calls = << >>
    /\ result = None
    /\ outcome = << >>
    /\ notify = << >>
    /\ loads = [k \in CacheKeys |-> 0]
    /\ evictions = [k \in CacheKeys |-> 0]
    /\ last = None
    /\ qr = None

\* the state of the material at a source: a file, or the configured blob
MaterialAt(source) ==
    IF source = "" THEN ""
    ELSE IF source = "base64" THEN config.certificateBase64
    ELSE files[source]

\* a caller resolves a credential
GetCertificate ==
    /\ \E rnc \in TenantIds :
        LET c == getCertificate(certificates, rnc)
            key == cacheKey(rnc)
        IN  /\ loads[key] <= MaxEvictions + 1
            /\ certificates' = c.cache
            /\ loads' = Counted(loads, key, c)
            /\ last' = [kind |-> "call", op |-> "getCertificate", rnc |-> rnc,
                        ok |-> c.ok, status |-> c.status, message |-> c.message,
                        certs |-> c.certs, read |-> c.read,
                        material |-> MaterialAt(c.read),
                        disk |-> IF c.ok THEN MaterialAt(c.certs.source) ELSE "",
                        loaded |-> Counted(loads, key, c)[key] - loads[key],
                        before |-> certificates]
    /\ UNCHANGED <<config, files, evictions, qr>>
    /\ UNCHANGED requestVars

\* a caller evicts one entry, or all
ClearCache ==
    /\ \E rnc \in TenantIds :
        LET after == clearCache(certificates, rnc)
            removed == DOMAIN certificates \ DOMAIN after
        IN  /\ \A k \in removed : evictions[k] < MaxEvictions
            /\ certificates' = after
            /\ evictions' = [k \in CacheKeys |->
                                IF k \in removed THEN evictions[k] + 1
                                ELSE evictions[k]]
            /\ last' = [kind |-> "call", op |-> "clearCache", rnc |-> rnc,
                        ok |-> TRUE, status |-> 200, message |-> "",
                        certs |-> None, read |-> "", material |-> "",
                        disk |-> "", loaded |-> 0, before |-> certificates]
    /\ UNCHANGED <<config, files, loads, qr>>
    /\ UNCHANGED requestVars

\* the operator installs a credential file, or renews one
ReplaceMaterial ==
    /\ \E f \in DOMAIN files :
        files' = [files EXCEPT ![f] = IF @ \in Unreadable THEN "valid"
                                      ELSE "renewed"]
    /\ files' # files
    /\ UNCHANGED <<config, certificates, loads, evictions, last, qr>>
    /\ UNCHANGED requestVars

CacheNext ==
    \/ GetCertificate
    \/ ClearCache
    \/ ReplaceMaterial

SpecCache == CacheInit /\ [][CacheNext]_vars

\* the last call of CertificateService was getCertificate / clearCache
Resolved == last.kind = "call" /\ last.op = "getCertificate"
Evicted == last.kind = "call" /\ last.op = "clearCache"
\* the last getCertificate found its key in the cache / did not
WasHit == Resolved /\ cacheKey(last.rnc) \in DOMAIN last.before
WasMiss == Resolved /\ cacheKey(last.rnc) \notin DOMAIN last.before

\* C12: per cache key the loads are at most one more than the evictions that
\* removed the key; a hit returns the stored credential, reads nothing and
\* leaves the cache as it was; a miss that succeeds made exactly one load and
\* stored what it returns
C12_LoadsBoundedByEvictions ==
    /\ \A k \in CacheKeys : loads[k] <= 1 + evictions[k]
    /\ WasHit =>
          /\ last.ok /\ last.certs = last.before[cacheKey(last.rnc)]
          /\ last.read = "" /\ last.loaded = 0
          /\ certificates = last.before
    /\ (WasMiss /\ last.ok) =>
          /\ last.read # "" /\ last.loaded = 1
          /\ cacheKey(last.rnc) \in DOMAIN certificates
          /\ certificates[cacheKey(last.rnc)] = last.certs
    /\ (WasMiss /\ ~last.ok) => last.loaded = 0 /\ certificates = last.before

\* a key evicted once was loaded a second time and then served from the cache
C12_Witness ==
    /\ WasHit
    /\ evictions[cacheKey(last.rnc)] = 1
    /\ loads[cacheKey(last.rnc)] = 2

\* C13: resolving a credential whose material does not exist fails with
\* status 404, and one whose material does not parse with status 500
C13_NotFoundIs404 ==
    Resolved =>
        /\ last.material = "missing" => ~last.ok /\ last.status = 404
        /\ last.material = "corrupt" => ~last.ok /\ last.status = 500

\* the source of the credential of a tenant / of the default credential
TenantSource(rnc) == rnc \o ".p12"
DefaultSources == {"base64", DefaultCertificate}

\* C14: a resolve that names a tax id yields the credential of the file
\* <taxId>.p12 and never the one of the configured blob
C14_TenantNeverFromBlob ==
    (Resolved /\ last.rnc # "" /\ last.ok) =>
        /\ last.certs.source = TenantSource(last.rnc)
        /\ last.certs.source # "base64"

\* the default credential was loaded while a blob was configured
DefaultLoadWithBlob ==
    WasMiss /\ last.rnc = "" /\ config.certificateBase64 # ""

\* C15 as stated: with a blob configured the default credential is loaded
\* from the configured file path
C15_FileBeforeBlob ==
    DefaultLoadWithBlob =>
        last.read = DefaultCertificate
        /\ (last.ok => last.certs.source = DefaultCertificate)

\* C15: with a blob configured the default credential is loaded from the
\* blob, whatever the state of the file at the configured path, and a resolve
\* without a blob loads it from the file
C15_BlobBeforeFile ==
    /\ DefaultLoadWithBlob =>
          last.read = "base64" /\ (last.ok => last.certs.source = "base64")
    /\ (WasMiss /\ last.rnc = "" /\ config.certificateBase64 = "") =>
          last.read = DefaultCertificate

\* the default credential was loaded from the blob while the file at the
\* configured path was readable
C15_Witness ==
    /\ DefaultLoadWithBlob /\ last.ok
    /\ last.certs.source = "base64"
    /\ files[DefaultCertificate] = "valid"

\* C16: clearCache(taxId) removes the entry of that tax id and leaves every
\* other entry and the default entry as they were; clearCache() removes every
\* entry; a resolve of a key that is not in the cache loads
C16_EvictOnlyThatEntry ==
    /\ (Evicted /\ last.rnc # "") =>
          /\ last.rnc \notin DOMAIN certificates
          /\ \A k \in DOMAIN last.before \ {last.rnc} :
                k \in DOMAIN certificates /\ certificates[k] = last.before[k]
          /\ "default" \in DOMAIN last.before =>
                /\ "default" \in DOMAIN certificates
                /\ certificates["default"] = last.before["default"]
    /\ (Evicted /\ last.rnc = "") => DOMAIN certificates = {}
    /\ (WasMiss /\ last.ok) => last.loaded = 1

\* C17: the value stored under a key stays as it is while the key is in the
\* cache, and the cache changes only when getCertificate stores the
\* credential of a key that was absent or clearCache removes entries
C17_EntriesImmutable ==
    [][/\ \A k \in DOMAIN certificates \cap DOMAIN certificates' :
             certificates'[k] = certificates[k]
       /\ certificates' # certificates =>
             \/ /\ last'.kind = "call" /\ last'.op = "getCertificate"
                /\ cacheKey(last'.rnc) \notin DOMAIN certificates
                /\ DOMAIN certificates' = DOMAIN certificates \cup {cacheKey(last'.rnc)}
             \/ /\ last'.kind = "call" /\ last'.op = "clearCache"
                /\ DOMAIN certificates' \subseteq DOMAIN certificates]_vars

\* a hit served the stored credential after its file had been renewed
C17_Witness ==
    /\ WasHit
    /\ last.disk = "renewed"
    /\ last.certs.material = "valid"
    /\ certificates[cacheKey(last.rnc)] = last.certs

\* C18: every entry holds the credential of the source of its key, a
\* request for the default credential is served the default credential and a
\* request for a tenant the credential of that tenant's own file
C18_EntryFromOwnSource ==
    /\ \A k \in DOMAIN certificates :
          IF k = "default" THEN certificates[k].source \in DefaultSources
          ELSE certificates[k].source = TenantSource(k)
    /\ (Resolved /\ last.ok) =>
          IF last.rnc = "" THEN last.certs.source \in DefaultSources
          ELSE last.certs.source = TenantSource(last.rnc)

----------------------------------------------------------------------------
(* The reference URL: GET /qr on its own, for every document number of a
   few characters *)

\* the characters a document number is made of here
EncfChars == {"E", "e", "3", "2", "1"}

EncfsOfLength(n) == [1..n -> EncfChars]

\* the query of a generateQR request
QRParams ==
    [rncEmisor : {TaxId},
     rncComprador : {"", RncReceptor},
     encf : UNION {EncfsOfLength(n) : n \in 1..MaxEncfLen},
     montoTotal : {11800},
     securityCode : {"ABC123"},
     fechaEmision : {"", "18-12-2025"},
     fechaFirma : {"", "18-12-2025 10:30:00"}]

QRInit ==
    /\ config \in [certificateBase64 : {""}, odooWebhookUrl : {""},
                   rncReceptor : {""}, apiKey : {ApiKey}]
    /\ files \in [FileNames -> {"valid"}]
    /\ certificates = [k \in {} |-> None]
    /\ nreq = 0
    /\ req = BaseReq
    /\ pc = 0
    /\ local = InitialLocal(BaseReq)
    /\ calls = << >>
    /\ result = None
    /\ outcome = << >>
    /\ notify = << >>
    /\ loads = [k \in CacheKeys |-> 0]
    /\ evictions = [k \in CacheKeys |-> 0]
    /\ last = None
    /\ qr \in {[kind |-> "query", params |-> params, url |-> None] :
                 params \in QRParams}

\* controller generateQR: the URL for the query is answered
GenerateQR ==
    /\ qr.kind = "query"
    /\ qr' = [kind |-> "qr", params |-> qr.params,
              url |-> generateQRCode(qr.params)]
    /\ UNCHANGED <<config, files, certificates, loads, evictions, last>>
    /\ UNCHANGED requestVars

QRNext == GenerateQR

SpecQR == QRInit /\ [][QRNext]_vars

\* the document number begins with the prefix of consumption invoices
BeginsWithE32(encf) ==
    Len(encf) >= 3 /\ encf[1] = "E" /\ encf[2] = "3" /\ encf[3] = "2"

\* C19: generateQRCode answers the short-form scheme exactly for the
\* document numbers that begin with E32, whatever dates are supplied
C19_ShortSchemeIffPrefix ==
    qr.kind = "qr" =>
        (qr.url.scheme = "fc" <=> BeginsWithE32(qr.params.encf))

\* C20: a full-scheme URL for a document number without the prefix carries
\* the issue date and the signing timestamp the caller supplied, and the
\* current time only in place of a signing timestamp that is absent
C20_SuppliedIssueDateKept ==
    (qr.kind = "qr" /\ ~BeginsWithE32(qr.params.encf) /\ qr.url.scheme = "ecf") =>
        /\ qr.params.fechaEmision # "" =>
              qr.url.fechaEmision = qr.params.fechaEmision
        /\ qr.url.fechaFirma = IF qr.params.fechaFirma # ""
                                THEN qr.params.fechaFirma ELSE Now

----------------------------------------------------------------------------
(* Reception of a request in which no document can be located *)

\* a reception request whose envelope holds no document: a multipart body
\* that does not parse, a JSON body without ecfXml, any other body without
\* an XML prolog
NoDocument == req.op \in ReceptionOps /\ req.body.kind = "none"

\* C11: a reception request in which no document can be located fails, and
\* neither the acknowledgment is built nor signXml is invoked for it
C11_MalformedReceptionNeverSigns ==
    NoDocument =>
        /\ \A i \in DOMAIN calls :
              calls[i].call \notin {"getECFDataFromXML", "signXml"}
        /\ notify[nreq].state = "none"
        /\ Responded => ~result.ok

\* a multipart envelope that did not parse was answered with a failure
C11_Witness ==
    /\ Responded /\ NoDocument
    /\ req.contentType = "multipart/form-data"
    /\ ~result.ok
    /\ \E i \in DOMAIN calls : calls[i].call = "parseMultipart" /\ ~calls[i].ok

----------------------------------------------------------------------------
(* The order of signing and authentication *)

\* the operations that ask the authority for a token first
AuthFirstOps == {"sendInvoice", "sendSummary", "sendSummaryWithEcf",
                 "sendApproval", "voidSequence"}

\* call i of the request is preceded by a call of that name that succeeded
PrecededBy(i, name) == \E j \in 1..(i - 1) : calls[j].call = name /\ calls[j].ok

\* C21 as stated: in every submission operation an authentication is
\* attempted only after a document was signed
C21_SignedBeforeAuthenticate ==
    req.op \in SubmissionOps =>
        \A i \in DOMAIN calls :
            calls[i].call = "authenticate" => PrecededBy(i, "signXml")

\* C21: sendInvoice, sendSummary, sendSummaryWithEcf, sendApproval and
\* voidSequence sign only after a successful authentication; sendReceipt
\* authenticates only after it has signed; the commercial approval signs and
\* never authenticates; every submit follows a successful signXml
C21_OrderByOperation ==
    /\ req.op \in AuthFirstOps =>
          \A i \in DOMAIN calls :
              calls[i].call = "signXml" => PrecededBy(i, "authenticate")
    /\ req.op = "sendReceipt" =>
          \A i \in DOMAIN calls :
              calls[i].call = "authenticate" => PrecededBy(i, "signXml")
    /\ req.op \in {"sendAcecf", "processAcecfFromEcf"} =>
          \A i \in DOMAIN calls : calls[i].call # "authenticate"
    /\ req.op \in SubmissionOps =>
          \A i \in SubmitIndexes : PrecededBy(i, "signXml")

\* sendInvoice failed at the authentication with nothing signed
C21_Witness ==
    /\ Responded /\ req.op = "sendInvoice" /\ ~result.ok
    /\ \E i \in DOMAIN calls : calls[i].call = "authenticate" /\ ~calls[i].ok
    /\ \A i \in DOMAIN calls : calls[i].call # "signXml"

----------------------------------------------------------------------------
(* Failures that are swallowed *)

\* some call of the request failed
SomeCallFailed == \E i \in DOMAIN calls : ~calls[i].ok

\* C22 as stated: a request in which any step other than the notification
\* failed does not answer with a success
C22_OnlyNotificationSwallowed ==
    (Responded /\ SomeCallFailed) => ~result.ok

\* C22: the failure of a call other than the extraction of the header fields
\* ends the request in a failure at once; a failed extraction leaves the
\* request running, with empty header fields; a failed notification leaves
\* the request a success
C22_SwallowedFailures ==
    /\ \A i \in DOMAIN calls :
          (~calls[i].ok /\ calls[i].call # "extractEcfInfo") =>
              /\ pc = 0 /\ result.kind = "response" /\ ~result.ok
              /\ outcome[nreq] = "failed"
    /\ (calls # << >> /\ calls[Len(calls)].call = "extractEcfInfo") =>
          /\ pc > 0
          /\ ~calls[Len(calls)].ok => local.ecfInfo.eNCF = ""
    /\ \A n \in DOMAIN notify :
          notify[n].state = "failed" => outcome[n] # "failed"

\* a reception answered with a success although its header fields could not
\* be read
C22_Witness ==
    /\ Responded /\ result.ok /\ req.op \in ReceptionOps
    /\ \E i \in DOMAIN calls : calls[i].call = "extractEcfInfo" /\ ~calls[i].ok
    /\ local.ecfInfo.eNCF = ""

----------------------------------------------------------------------------
(* An invoice without its header *)

\* the calls that reach the authority
AuthorityCalls == SubmitCalls \cup {"authenticate"}

\* C23: sendInvoice and sendSummaryWithEcf reject an invoice payload that has
\* no header: the request fails, nothing is signed and the authority is not
\* called
C23_HeaderlessInvoiceRejected ==
    (req.op \in {"sendInvoice", "sendSummaryWithEcf"} /\ ~req.payload.Encabezado) =>
        /\ \A i \in DOMAIN calls :
              calls[i].call # "signXml" /\ calls[i].call \notin AuthorityCalls
        /\ Responded => ~result.ok

----------------------------------------------------------------------------
(* Namespace declarations of acknowledgments and approvals *)

\* C24: every XML that a submission operation hands to signXml under the
\* tag ARECF or ACECF declares the namespaces on its root
C24_NamespacesOnRoot ==
    req.op \in SubmissionOps =>
        \A i \in DOMAIN calls :
            (calls[i].call = "signXml" /\ calls[i].tag \in {"ARECF", "ACECF"}) =>
                calls[i].arg.content.ns

----------------------------------------------------------------------------
(* The verification code of a signed document *)

DocumentTypes == {"ECF", "RFCE", "ARECF", "ACECF", "ANECF"}

\* the signXml calls of the request that succeeded
Signed == {i \in DOMAIN calls : calls[i].call = "signXml" /\ calls[i].ok}

\* C25: under every document type tag the code that signXml returns is the
\* one derived from the signed XML it returns with it, which is the signature
\* of the XML it was given under that tag
C25_CodeOfReturnedSignedXml ==
    \A i \in Signed :
        /\ calls[i].tag \in DocumentTypes
        /\ calls[i].out.xml = calls[i].arg /\ calls[i].out.tag = calls[i].tag
        /\ calls[i].code = getCodeSixDigitfromSignature(calls[i].out)
        /\ \A j \in Signed :
              calls[j].out # calls[i].out => calls[j].code # calls[i].code

\* one request signed two documents and got two codes
C25_Witness ==
    \E i, j \in Signed :
        /\ calls[i].tag = "ECF" /\ calls[j].tag = "RFCE"
        /\ calls[i].code # calls[j].code
        /\ calls[j].code = getCodeSixDigitfromSignature(calls[j].out)

----------------------------------------------------------------------------
(* The API key in front of every handler *)

Keyed == req.apiKey # "" /\ req.apiKey = config.apiKey

\* C26: a request whose x-api-key header is missing or differs from the
\* configured key is answered 401 and none of its handler runs: no step is
\* taken, no credential is resolved, nothing is signed, the authority is not
\* called and no notification is started
C26_NoHandlerWithoutApiKey ==
    ~Keyed =>
        /\ pc = 0
        /\ calls = << >>
        /\ local = InitialLocal(req)
        /\ result = Failure(401)
        /\ outcome[nreq] = "failed"
        /\ notify[nreq].state = "none"

C26_Witness ==
    /\ Responded
    /\ req.apiKey = "another_key"
    /\ req.op = "sendInvoice"
    /\ req.payload.Encabezado
    /\ result.status = 401
    /\ calls = << >>

----------------------------------------------------------------------------
(* The signing, authentication, directory and peer-validation handlers.
   Each is short and takes one credential; an action is one whole request. *)

\* the environment tags of a request ("" when absent)
Environments == {"", "test"}

\* the tags a body can carry, one of them not an environment
EnvironmentTags == {"", "test", "cert", "prod", "staging"}

ToolFileNames == FileNames \cup {"test.p12"}

\* the element names the detection knows, in the order it tries them
knownTypes ==
    << <<"E", "C", "F">>, <<"R", "F", "C", "E">>, <<"A", "R", "E", "C", "F">>,
       <<"A", "C", "E", "C", "F">>, <<"A", "N", "E", "C", "F">>,
       <<"S", "e", "m", "i", "l", "l", "a", "M", "o", "d", "e", "l">> >>

\* the document types the schema of /sign admits
signXmlTypes == {knownTypes[i] : i \in 1..5}

\* other element names: a batch, and a name that begins like a known one
Lote == <<"L", "o", "t", "e">>
ECFLote == knownTypes[1] \o Lote

\* the text of a request body: an optional prolog, the root element (<< >>
\* for text without markup) and an optional element inside it
Xml(prolog, root, child) ==
    [kind |-> "text", prolog |-> prolog, root |-> root, child |-> child]

XmlTexts ==
    {Xml(p, knownTypes[1], << >>) : p \in BOOLEAN}
    \cup {Xml(FALSE, knownTypes[6], << >>), Xml(FALSE, ECFLote, << >>),
          Xml(TRUE, Lote, << >>), Xml(FALSE, Lote, knownTypes[1]),
          Xml(FALSE, << >>, << >>)}

IsPrefix(p, s) == Len(p) <= Len(s) /\ SubSeq(s, 1, Len(p)) = p

\* xmlData.includes(`<${type}`): some opening tag begins with the type
includesTag(xmlData, type) ==
    \E t \in {xmlData.root, xmlData.child} \ {<< >>} : IsPrefix(type, t)

\* xmlData.includes('<')
includesMarkup(xmlData) == xmlData.prolog \/ xmlData.root # << >>

\* detectDocumentType: the first known type found anywhere in the text, else
\* the first tag after the prolog or at the start; << >> is null
detectDocumentType(xmlData) ==
    LET found == {i \in DOMAIN knownTypes : includesTag(xmlData, knownTypes[i])}
    IN  IF found # {}
        THEN knownTypes[CHOOSE i \in found : \A j \in found : i <= j]
        ELSE xmlData.root

\* what a handler did: the credential tax ID it asked for, the environment
\* it addressed, what it answered
NoCall ==
    [kind |-> "call", op |-> "", rnc |-> "", environment |-> "",
     documentType |-> << >>, body |-> None, ok |-> FALSE, status |-> 0,
     resolved |-> FALSE, asked |-> "", certs |-> None, env |-> "",
     token |-> None, expira |-> None, signedXml |-> None, used |-> << >>,
     verified |-> FALSE, cache |-> << >>]

Rejected(call, cache, status) ==
    [call EXCEPT !.status = status, !.cache = cache]

\* variant: the configured default wins over the tag of the request
getEnvironment_ConfigFirst(env) ==
    LET environment == IF config.dgiiEnvironment # "" THEN config.dgiiEnvironment
                       ELSE env
    IN  CASE environment = "test" -> "DEV"
          [] environment = "cert" -> "CERT"
          [] environment = "prod" -> "PROD"
          [] OTHER -> "DEV"

\* getEnvironment: `env || config.dgiiEnvironment`, then the switch
getEnvironment(env) ==
    LET environment == IF env # "" THEN env ELSE config.dgiiEnvironment
    IN  CASE environment = "test" -> "DEV"
          [] environment = "cert" -> "CERT"
          [] environment = "prod" -> "PROD"
          [] OTHER -> "DEV"

\* DGIIService.authenticate(rnc, environment); `grants` is whether the
\* authority issues a token
DGIIService_authenticate(call, cache, rnc, environment, grants) ==
    LET c == getCertificate(cache, rnc)
        asked == [call EXCEPT !.resolved = TRUE, !.asked = rnc,
                              !.certs = c.certs, !.cache = c.cache]
    IN  IF c.ok /\ grants
        THEN [asked EXCEPT !.ok = TRUE, !.status = 200,
                           !.env = getEnvironment(environment),
                           !.token = [kind |-> "token", by |-> c.certs]]
        ELSE [asked EXCEPT !.status = 500]

\* controller authenticate behind validateRequest(schemas.auth): a key the
\* schema does not name is not allowed
authController(cache, rnc, environment, grants) ==
    LET call == [NoCall EXCEPT !.op = "authenticate", !.rnc = rnc,
                               !.environment = environment]
    IN  IF rnc # "" \/ environment \notin {"", "test", "cert", "prod"}
        THEN Rejected(call, cache, 400)
        ELSE DGIIService_authenticate(call, cache, "", environment, grants)

\* controller signXml behind validateRequest(schemas.signXml)
signXmlController(cache, xmlData, documentType, rnc, signs) ==
    LET call == [NoCall EXCEPT !.op = "signXml", !.rnc = rnc, !.body = xmlData,
                               !.documentType = documentType]
        s == signXml(cache, xmlData, documentType, "", signs)
    IN  IF rnc # "" \/ xmlData.kind # "text" \/ documentType \notin signXmlTypes
        THEN Rejected(call, cache, 400)
        ELSE [call EXCEPT !.resolved = TRUE, !.asked = "",
                          !.certs = getCertificate(cache, "").certs,
                          !.cache = s.cache, !.ok = s.ok, !.status = s.status,
                          !.signedXml = s.signedXml, !.used = documentType]

\* DGIIService.getCustomerDirectory(rncToQuery, certRnc, environment);
\* `answers` is whether the authority authenticates and answers
getCustomerDirectory(call, cache, rncToQuery, certRnc, environment, answers) ==
    LET c == getCertificate(cache, certRnc)
        asked == [call EXCEPT !.resolved = TRUE, !.asked = certRnc,
                              !.certs = c.certs, !.cache = c.cache]
    IN  IF c.ok /\ answers
        THEN [asked EXCEPT !.ok = TRUE, !.status = 200,
                           !.env = getEnvironment(environment)]
        ELSE [asked EXCEPT !.status = 500]

\* controller getCustomerDirectory: the path's rnc and the query's environment
customerDirectory(cache, rnc, environment, answers) ==
    getCustomerDirectory([NoCall EXCEPT !.op = "getCustomerDirectory",
                                        !.rnc = rnc, !.environment = environment],
                         cache, rnc, environment, "", answers)

\* variant: the catch of the controller answers with a token all the same
validateCertificate_TokenOnFailure(cache, body, verifies) ==
    LET call == [NoCall EXCEPT !.op = "validateCertificate", !.body = body]
        c == getCertificate(cache, "")
    IN  IF body.kind # "text"
           \/ (~body.prolog /\ ~includesTag(body, knownTypes[6]))
        THEN Rejected(call, cache, 400)
        ELSE [call EXCEPT !.resolved = TRUE, !.certs = c.certs,
                          !.cache = c.cache, !.ok = TRUE, !.status = 200,
                          !.verified = c.ok /\ verifies,
                          !.token = [kind |-> "token", by |-> c.certs],
                          !.expira = [kind |-> "time", at |-> "now+24h"]]

\* controller validateCertificate with DGIIService.validateSignedSeed;
\* `verifies` is whether the library's verifySignedSeed accepts the seed
validateCertificate(cache, body, verifies) ==
    LET call == [NoCall EXCEPT !.op = "validateCertificate", !.body = body]
        c == getCertificate(cache, "")
        asked == [call EXCEPT !.resolved = TRUE, !.certs = c.certs,
                              !.cache = c.cache]
    IN  IF body.kind # "text"
           \/ (~body.prolog /\ ~includesTag(body, knownTypes[6]))
        THEN Rejected(call, cache, 400)
        ELSE IF c.ok /\ verifies
        THEN [asked EXCEPT !.ok = TRUE, !.status = 200, !.verified = TRUE,
                           !.token = [kind |-> "token", by |-> c.certs],
                           !.expira = [kind |-> "time", at |-> "now+24h"]]
        ELSE [asked EXCEPT !.status = 401]

\* controller signXmlFile: the query's documentType when it is given, else
\* the detected one
signXmlFile(cache, documentType, rnc, body, signs) ==
    LET call == [NoCall EXCEPT !.op = "signXmlFile", !.rnc = rnc, !.body = body,
                               !.documentType = documentType]
        type == IF documentType # << >> THEN documentType
                ELSE detectDocumentType(body)
        s == signXml(cache, body, type, rnc, signs)
    IN  IF body.kind # "text" THEN Rejected(call, cache, 400)
        ELSE IF ~includesMarkup(body) THEN Rejected(call, cache, 400)
        ELSE IF type = << >> THEN Rejected(call, cache, 400)
        ELSE [call EXCEPT !.resolved = TRUE, !.asked = rnc,
                          !.certs = getCertificate(cache, rnc).certs,
                          !.cache = s.cache, !.ok = s.ok, !.status = s.status,
                          !.signedXml = s.signedXml, !.used = type]

ToolsInit ==
    /\ config \in [certificateBase64 : {"", "valid"},
                   odooWebhookUrl : {""},
                   rncReceptor : {""}, apiKey : {ApiKey},
                   dgiiEnvironment : {"test", "cert", "prod", "staging"}]
    /\ files \in [ToolFileNames -> {"missing", "valid"}]
    /\ certificates = [k \in {} |-> None]
    /\ nreq = 0
    /\ req = BaseReq
    /\ pc = 0
    /\ local = InitialLocal(BaseReq)
    /\ calls = << >>
    /\ result = None
    /\ outcome = << >>
    /\ notify = << >>
    /\ loads = [k \in CacheKeys |-> 0]
    /\ evictions = [k \in CacheKeys |-> 0]
    /\ last = None
    /\ qr = None

Handled(r) ==
    /\ certificates' = r.cache
    /\ last' = r
    /\ UNCHANGED <<config, files, loads, evictions, qr>>
    /\ UNCHANGED requestVars

AuthenticateDgii ==
    \E rnc \in RncValues, environment \in EnvironmentTags, grants \in BOOLEAN :
        Handled(authController(certificates, rnc, environment, grants))

SignXml ==
    \E xmlData \in {Xml(TRUE, knownTypes[1], << >>), None},
       documentType \in {knownTypes[1], Lote},
       rnc \in RncValues, signs \in BOOLEAN :
        Handled(signXmlController(certificates, xmlData, documentType, rnc, signs))

GetCustomerDirectory ==
    \E environment \in Environments, answers \in BOOLEAN :
        Handled(customerDirectory(certificates, TaxId, environment, answers))

ValidateCertificate ==
    \E body \in XmlTexts \cup {None}, verifies \in BOOLEAN :
        Handled(validateCertificate(certificates, body, verifies))

SignXmlFile ==
    \E documentType \in {<< >>, knownTypes[3]},
       rnc \in RncValues, body \in XmlTexts \cup {None}, signs \in BOOLEAN :
        Handled(signXmlFile(certificates, documentType, rnc, body, signs))

ToolsNext ==
    \/ AuthenticateDgii
    \/ SignXml
    \/ GetCustomerDirectory
    \/ ValidateCertificate
    \/ SignXmlFile

SpecTools == ToolsInit /\ [][ToolsNext]_vars

----------------------------------------------------------------------------
(* Peer validation, optional tax ID, environment tag, detection *)

Asked(op) == last.kind = "call" /\ last.op = op

\* C27: validateCertificate answers with a token and its expiry only when
\* the verification of the signed seed succeeded in that request; without a
\* signed seed, or when the verification fails, the answer is a failure that
\* holds no token
C27_TokenOnlyWhenVerified ==
    Asked("validateCertificate") =>
        /\ (last.token # None \/ last.expira # None) =>
                last.verified /\ last.ok /\ last.token # None /\ last.expira # None
        /\ (last.body.kind # "text" \/ ~last.verified) =>
                ~last.ok /\ last.status \in {400, 401} /\ last.token = None

C27_Witness ==
    /\ Asked("validateCertificate")
    /\ last.status = 200
    /\ last.verified
    /\ last.token # None
    /\ last.certs.kind = "cred"

\* C28: sign and authenticate accept a tax ID in the request, and use the
\* credential of that taxpayer when it is given
C28_RncSelectsCredential ==
    /\ (Asked("signXml") /\ last.body.kind = "text"
            /\ last.documentType \in signXmlTypes) =>
           last.status # 400 /\ last.resolved /\ last.asked = last.rnc
    /\ Asked("authenticate") =>
           last.status # 400 /\ last.resolved /\ last.asked = last.rnc

\* C29: a directory lookup with an environment tag addresses that
\* environment and takes the default credential: the tag is never the tax
\* ID of the credential
C29_EnvironmentNotCredential ==
    Asked("getCustomerDirectory") =>
        /\ last.resolved /\ last.asked = ""
        /\ last.ok => last.env = getEnvironment(last.environment)

\* C30: sign-file signs under the name of the root element when no
\* documentType is given, and under the given documentType otherwise
C30_RootElementUnlessGiven ==
    (Asked("signXmlFile") /\ last.ok) =>
        last.used = IF last.documentType # << >> THEN last.documentType
                    ELSE last.body.root

----------------------------------------------------------------------------
(* Validation failures inside the service methods *)

\* the request holds data that a check inside a service method refuses
RefusedInService ==
    \/ req.op = "sendReceipt" /\ ~req.payload.ids
    \/ req.op = "sendSummaryWithEcf" /\ ~req.payload.Encabezado
    \/ /\ req.op = "processAcecfFromEcf"
       /\ req.body.kind # "none"
       /\ ~req.body.content.ids

\* C31: when everything the request called went well and it holds data that
\* a check inside sendReceipt, sendSummaryWithEcf or
\* processCommercialApproval refuses, the answer is a 400
C31_ValidationIs400 ==
    (Responded /\ Keyed /\ RefusedInService /\ \A i \in DOMAIN calls : calls[i].ok)
        => result.status = 400

----------------------------------------------------------------------------
(* The environment addressed *)

\* the tag in effect: the one of the request, else the configured one
EffectiveTag == IF last.environment # "" THEN last.environment
                ELSE config.dgiiEnvironment

\* C32: test addresses the test environment, cert certification and prod
\* production; the tag of the request overrides the configured default; any
\* other tag addresses the test environment, so production is addressed
\* only when the tag in effect is exactly prod
C32_EnvironmentOfTag ==
    (Asked("authenticate") /\ last.ok) =>
        /\ last.env = "PROD" <=> EffectiveTag = "prod"
        /\ last.env = "CERT" <=> EffectiveTag = "cert"
        /\ last.env = "DEV" <=> EffectiveTag \notin {"cert", "prod"}

C32_Witness ==
    /\ Asked("authenticate")
    /\ last.ok
    /\ last.environment = "test"
    /\ config.dgiiEnvironment = "prod"
    /\ last.env = "DEV"

----------------------------------------------------------------------------
(* processCommercialApproval: the issue date of the received document.
   A text is the sequence of its parts between dashes, each part a sequence
   of characters. *)

MaxDateParts == 3

DateParts == {<< >>, <<"1", "8">>, <<"1", "2">>, <<"2", "0", "2", "5">>,
              <<"1", "2", "3", "4">>}

DateTexts == UNION {[1..n -> DateParts] : n \in 1..MaxDateParts}

RECURSIVE TextLength(_)
\* fechaEmision.length
TextLength(parts) ==
    IF Len(parts) = 0 THEN 0
    ELSE IF Len(parts) = 1 THEN Len(parts[1])
    ELSE Len(parts[1]) + 1 + TextLength(Tail(parts))

\* variant: every text of three parts is turned around
formatFechaEmision_Always(fechaEmision) ==
    IF Len(fechaEmision) = 3
    THEN <<fechaEmision[3], fechaEmision[2], fechaEmision[1]>>
    ELSE fechaEmision

\* the text handed to sendCommercialApproval as fechaEmision: a text of ten
\* characters that holds a dash and whose first part has four characters is
\* rebuilt as `${parts[2]}-${parts[1]}-${parts[0]}`
formatFechaEmision(fechaEmision) ==
    LET parts == fechaEmision
        undefined == <<"u", "n", "d", "e", "f", "i", "n", "e", "d">>
    IN  IF TextLength(fechaEmision) # 0 /\ Len(parts) > 1
           /\ TextLength(fechaEmision) = 10 /\ Len(parts[1]) = 4
        THEN << IF Len(parts) >= 3 THEN parts[3] ELSE undefined,
                parts[2], parts[1] >>
        ELSE fechaEmision

DateInit ==
    /\ config \in [certificateBase64 : {""}, odooWebhookUrl : {""},
                   rncReceptor : {""}, apiKey : {ApiKey}]
    /\ files \in [FileNames -> {"valid"}]
    /\ certificates = [k \in {} |-> None]
    /\ nreq = 0
    /\ req = BaseReq
    /\ pc = 0
    /\ local = InitialLocal(BaseReq)
    /\ calls = << >>
    /\ result = None
    /\ outcome = << >>
    /\ notify = << >>
    /\ loads = [k \in CacheKeys |-> 0]
    /\ evictions = [k \in CacheKeys |-> 0]
    /\ last = None
    /\ qr \in {[kind |-> "date", text |-> t, out |-> << >>, again |-> << >>] :
                 t \in DateTexts}

\* the date of a received document is formatted; the approval built from it
\* is received in turn and its date formatted again
FormatFechaEmision ==
    /\ qr.kind = "date"
    /\ qr.again = << >>
    /\ qr' = IF qr.out = << >>
             THEN [qr EXCEPT !.out = formatFechaEmision(qr.text)]
             ELSE [qr EXCEPT !.again = formatFechaEmision(qr.out)]
    /\ UNCHANGED <<config, files, certificates, loads, evictions, last>>
    /\ UNCHANGED requestVars

SpecDate == DateInit /\ [][FormatFechaEmision]_vars

YearFirst(text) ==
    Len(text) = 3 /\ Len(text[1]) = 4 /\ Len(text[2]) = 2 /\ Len(text[3]) = 2

DayFirst(text) ==
    Len(text) = 3 /\ Len(text[1]) = 2 /\ Len(text[2]) = 2 /\ Len(text[3]) = 4

Formatted == qr.kind = "date" /\ qr.out # << >>

\* C33: a date YYYY-MM-DD becomes DD-MM-YYYY, a date DD-MM-YYYY is left as
\* it is, and formatting the output again changes nothing
C33_DateConversionIdempotent ==
    Formatted =>
        /\ YearFirst(qr.text) => qr.out = <<qr.text[3], qr.text[2], qr.text[1]>>
        /\ DayFirst(qr.text) => qr.out = qr.text
        /\ qr.again # << >> => qr.again = qr.out

\* four characters, an empty part, four characters
FourEmptyFour(text) ==
    Len(text) = 3 /\ Len(text[1]) = 4 /\ Len(text[2]) = 0 /\ Len(text[3]) = 4

\* C33, as the code has it: a date YYYY-MM-DD becomes DD-MM-YYYY, a date
\* DD-MM-YYYY is left as it is, and formatting the output again changes
\* nothing unless the text is four characters, two dashes and four
\* characters, which every formatting turns around
C33_IdempotentOnDates ==
    Formatted =>
        /\ YearFirst(qr.text) => qr.out = <<qr.text[3], qr.text[2], qr.text[1]>>
        /\ DayFirst(qr.text) => qr.out = qr.text
        /\ (qr.again # << >> /\ ~FourEmptyFour(qr.text)) => qr.again = qr.out
        /\ (qr.again # << >> /\ FourEmptyFour(qr.text)) => qr.again = qr.text

C33_Witness ==
    /\ Formatted
    /\ YearFirst(qr.text)
    /\ DayFirst(qr.out)
    /\ qr.again = qr.out

----------------------------------------------------------------------------
(* What is returned of the transmitted document *)

\* the document handed to the authority in this request
Transmitted == calls[CHOOSE i \in SubmitIndexes : TRUE].arg

SubmittedOk == Responded /\ result.ok /\ SubmitIndexes # {}

\* C34: the signedXml and the verification code of a returned result are
\* those of the document that was transmitted in that request, whatever
\* fields the authority's response carries
C34_ReturnedIsTransmitted ==
    SubmittedOk =>
        /\ "signedXml" \in DOMAIN result.data =>
                result.data.signedXml = Transmitted
        /\ "securityCode" \in DOMAIN result.data =>
                result.data.securityCode = getCodeSixDigitfromSignature(Transmitted)

\* C34, as the code has it: the fields a handler lists after the spread of
\* the response are those of the transmitted document, and a field of the
\* response replaces none of them; a signedXml or a verification code that
\* the handler does not list itself is the response's
C34_OwnFieldsWin ==
    SubmittedOk =>
        /\ "signedXml" \in Returned(req.op) =>
                result.data.signedXml = Transmitted
        /\ "securityCode" \in Returned(req.op) =>
                result.data.securityCode = getCodeSixDigitfromSignature(Transmitted)
        /\ req.op = "sendSummaryWithEcf" =>
                /\ result.data.signedRfceXml = Transmitted
                /\ result.data.rfceSecurityCode =
                        getCodeSixDigitfromSignature(Transmitted)
        /\ \A n \in DOMAIN result.data \ Returned(req.op) :
                result.data[n] = Foreign

C34_Witness ==
    /\ SubmittedOk
    /\ req.op = "sendInvoice"
    /\ local.response.named
    /\ result.data.signedXml = Transmitted
    /\ result.data.signedXml.kind = "signed"

----------------------------------------------------------------------------
(* Submissions while the cache is evicted and the stored material changes.
   clearCache is a method of the exported service; between two steps of a
   request any caller of it may run. *)

\* submissions of one taxpayer: an invoice, and an approval
SubmissionArrivals ==
    {rq \in Requests :
        /\ rq.rnc = TaxId
        /\ \/ rq.op = "sendInvoice" /\ rq.encf = "E310000000001"
                /\ rq.payload.Encabezado /\ rq.payload.MontoTotal = 11800
           \/ rq.op = "sendAcecf" /\ rq.payload.ids /\ rq.payload.Estado = "1"}

StartSubmission == Start(SubmissionArrivals)

EvictInit ==
    /\ Init
    /\ config.certificateBase64 = ""
    /\ config.odooWebhookUrl = ""
    /\ \A f \in DOMAIN files : files[f] = "valid"

EvictNext ==
    \/ StartSubmission
    \/ DoPure
    \/ DoGetCertificate
    \/ DoAuthenticate
    \/ DoLib
    \/ DoSignXml
    \/ DoSubmit
    \/ DoReturn
    \/ EndRequest
    \/ ClearCache
    \/ ReplaceMaterial

SpecEvict == EvictInit /\ [][EvictNext]_vars

\* C35: within one request, the credential that authenticated and submitted
\* and the credential that signed are the same
C35_OneCredentialPerRequest ==
    \A i, j \in DOMAIN calls :
        (/\ calls[i].call \in {"authenticate"} \cup SubmitCalls
         /\ calls[j].call = "signXml"
         /\ calls[i].ok /\ calls[j].ok)
            => calls[i].by = calls[j].by

----------------------------------------------------------------------------
(* A resolve that fails *)

\* C36: a getCertificate that fails leaves the cache as it was, with no
\* entry for its key, and the next getCertificate of that key reads the
\* source again
C36_FailedResolveLeavesCache ==
    [][/\ (last' # last /\ last'.op = "getCertificate" /\ ~last'.ok) =>
             /\ certificates' = certificates
             /\ cacheKey(last'.rnc) \notin DOMAIN certificates'
       /\ (/\ Resolved /\ ~last.ok
           /\ last' # last /\ last'.op = "getCertificate"
           /\ cacheKey(last'.rnc) = cacheKey(last.rnc)) =>
             last'.read # ""]_vars

\* a resolve failed on a missing file while another key was cached
C36_Witness ==
    /\ Resolved
    /\ ~last.ok
    /\ last.material = "missing"
    /\ DOMAIN last.before # {}
    /\ certificates = last.before
    /\ cacheKey(last.rnc) \notin DOMAIN certificates

----------------------------------------------------------------------------
(* The reference URL of sendInvoice and the one of generateQRCode *)

\* the characters of a document number
CharsOf(encf) ==
    IF encf = "E320000000001"
    THEN <<"E", "3", "2", "0", "0", "0", "0", "0", "0", "0", "0", "0", "1">>
    ELSE <<"E", "3", "1", "0", "0", "0", "0", "0", "0", "0", "0", "0", "1">>

\* what generateQRCode answers for the data of the invoice just sent
SameQuery ==
    generateQRCode([rncEmisor |-> req.rnc, rncComprador |-> "",
                    encf |-> CharsOf(req.encf),
                    montoTotal |-> req.payload.MontoTotal,
                    securityCode |-> result.data.securityCode,
                    fechaEmision |-> "", fechaFirma |-> ""])

\* C37: the reference URL returned by sendInvoice has the scheme that
\* generateQRCode selects for the same issuer, document number, total and
\* verification code: the short form for a number with the prefix E32, the
\* full form for every other
C37_SameSchemeAsGenerateQRCode ==
    (Responded /\ result.ok /\ req.op = "sendInvoice") =>
        /\ result.data.qrCodeUrl.scheme = SameQuery.scheme
        /\ result.data.qrCodeUrl.scheme =
              IF BeginsWithE32(CharsOf(req.encf)) THEN "fc" ELSE "ecf"

----------------------------------------------------------------------------
(* The downstream notification of a received document *)

\* the outbound notification calls of the request in hand
Posts == {i \in DOMAIN calls : calls[i].call = "axios.post"}

\* the acknowledgments the request in hand has signed successfully before
\* its i-th call
SignedBefore(i) ==
    {j \in 1..(i - 1) :
        calls[j].call = "signXml" /\ calls[j].tag = "ARECF" /\ calls[j].ok}

InRequest == pc # 0 \/ result.kind # "none"

\* C38: the notification of a received document is initiated only after the
\* acknowledgment has been signed successfully, and carries that signed
\* acknowledgment, the received XML and the decided status; a request that
\* failed has initiated none, and without a webhook URL nothing is posted
C38_NotifyAfterSigning ==
    /\ (InRequest /\ notify[nreq].state # "none") =>
            SignedBefore(Len(calls) + 1) # {}
    /\ \A i \in Posts :
          /\ SignedBefore(i) # {}
          /\ \A j \in SignedBefore(i) :
                /\ calls[i].arg.arecfXmlSigned = calls[j].out
                /\ calls[i].arg.arecfStatus = calls[j].arg.content.Estado
          /\ calls[i].arg.ecfXmlReceived = local.received
          /\ calls[i].arg.arecfStatus = local.status
          /\ calls[i].arg.arecfRejectCode = local.code
    /\ \A n \in DOMAIN notify :
          /\ outcome[n] = "failed" => notify[n].state = "none"
          /\ config.odooWebhookUrl = "" => notify[n].posts = 0
    /\ config.odooWebhookUrl = "" => Posts = {}

\* a rejected document whose notification is in flight with its signed
\* acknowledgment, after an earlier request that failed
C38_Witness ==
    /\ nreq = 2 /\ outcome[1] = "failed" /\ notify[1].state = "none"
    /\ notify[2].state = "inflight"
    /\ \E i \in Posts :
          /\ calls[i].arg.arecfStatus = NoRecibido
          /\ calls[i].arg.arecfXmlSigned.kind = "signed"
          /\ calls[i].arg.ecfXmlReceived.kind # "none"

----------------------------------------------------------------------------
(* The reason of a commercial approval *)

\* the approval bodies generateAcecfXml has built for the request in hand
Built ==
    {i \in DOMAIN calls : calls[i].call = "generateAcecfXml" /\ calls[i].ok}

\* C39: the XML built by generateAcecfXml has a DetalleMotivoRechazo element,
\* holding the reason supplied, exactly when the state is 2 (rejected) and the
\* reason is not empty; an approved document (state 1) has none, even when a
\* reason was supplied
C39_ReasonOnlyWhenRejected ==
    Built # {} =>
        /\ local.xml.content.root = "ACECF"
        /\ local.xml.content.Estado = local.data.Estado
        /\ local.xml.content.Motivo # "" <=>
              (local.data.Estado = "2" /\ local.data.Motivo # "")
        /\ local.xml.content.Motivo \in {"", local.data.Motivo}
        /\ local.data.Estado = "1" => local.xml.content.Motivo = ""

\* an approval for which a reason was supplied, built without it
C39_Witness ==
    /\ Built # {}
    /\ local.data.Estado = "1" /\ local.data.Motivo # ""
    /\ local.xml.content.Motivo = ""

====
